---- MODULE Spec2Model ----
(***************************************************************************)
(* Dialogue orchestration of the booking bot: the Telegram text handler,   *)
(* the payment-proof handler, the application graph (router + handlers)    *)
(* and the booking sub-graph (slot filling, summary, payment hand-off).    *)
(*                                                                         *)
(* Python values are written as strings: "None" is None, "ABSENT" is a key *)
(* that is not in a dict, "True"/"False" are the booleans, "" is the empty *)
(* string.  Russian literals are transliterated:                           *)
(*   "podtverzhdayu" = "подтверждаю", "net" = "нет", "da" = "да",          *)
(*   "tsena" = "цена", "bron" = "бронь", "chto takoe" = "что такое",       *)
(*   "12 chasov" = "12 часов", "rabochiy" = "рабочий".                     *)
(***************************************************************************)
EXTENDS Integers, Sequences, FiniteSets, TLC

(***************************************************************************)
(* Bounds of the model.                                                    *)
(***************************************************************************)
\* supersteps a graph run may take before GraphRecursionError (the library
\* default is 25; the loop it cuts is the same at any limit)
RecursionLimit == 3
\* handler coroutines that may be in flight
NumTasks == 2

Tasks == 1..NumTasks

(***************************************************************************)
(* BookingField, RATE_REQUIREMENTS, BASE_REQUIRED                          *)
(***************************************************************************)
BookingField ==
  {"TARIFF", "START_DATE", "START_TIME", "FINISH_DATE", "FINISH_TIME",
   "FIRST_BEDROOM", "SECOND_BEDROOM", "SAUNA", "PHOTOSHOOT", "SECRET_ROOM",
   "NUMBER_GUESTS", "CONTACT", "COMMENT"}

Tariff ==
  {"HOURS_12", "DAY", "WORKER", "INCOGNITA_DAY", "INCOGNITA_HOURS",
   "DAY_FOR_COUPLE"}

\* RATE_REQUIREMENTS with the first bedroom left out of the 12-hour list
RATE_REQUIREMENTS_no_first_bedroom(tariff) ==
  CASE tariff = "DAY" ->
         <<"SAUNA", "PHOTOSHOOT", "START_DATE", "START_TIME", "FINISH_DATE",
           "FINISH_TIME", "NUMBER_GUESTS">>
    [] tariff = "DAY_FOR_COUPLE" ->
         <<"SAUNA", "PHOTOSHOOT", "START_DATE", "START_TIME", "FINISH_DATE",
           "FINISH_TIME">>
    [] tariff = "HOURS_12" ->
         <<"SAUNA", "SECRET_ROOM", "SECOND_BEDROOM",
           "START_DATE", "START_TIME", "FINISH_DATE", "FINISH_TIME",
           "NUMBER_GUESTS">>
    [] tariff = "WORKER" ->
         <<"SAUNA", "SECRET_ROOM", "FIRST_BEDROOM", "SECOND_BEDROOM",
           "START_DATE", "START_TIME", "FINISH_DATE", "FINISH_TIME",
           "NUMBER_GUESTS">>
    [] tariff \in {"INCOGNITA_HOURS", "INCOGNITA_DAY"} ->
         <<"PHOTOSHOOT", "START_DATE", "START_TIME", "FINISH_DATE",
           "FINISH_TIME", "NUMBER_GUESTS">>
    [] OTHER -> << >>

RATE_REQUIREMENTS(tariff) ==
  CASE tariff = "DAY" ->
         <<"SAUNA", "PHOTOSHOOT", "START_DATE", "START_TIME", "FINISH_DATE",
           "FINISH_TIME", "NUMBER_GUESTS">>
    [] tariff = "DAY_FOR_COUPLE" ->
         <<"SAUNA", "PHOTOSHOOT", "START_DATE", "START_TIME", "FINISH_DATE",
           "FINISH_TIME">>
    [] tariff = "HOURS_12" ->
         <<"SAUNA", "SECRET_ROOM", "SECOND_BEDROOM", "FIRST_BEDROOM",
           "START_DATE", "START_TIME", "FINISH_DATE", "FINISH_TIME",
           "NUMBER_GUESTS">>
    [] tariff = "WORKER" ->
         <<"SAUNA", "SECRET_ROOM", "FIRST_BEDROOM", "SECOND_BEDROOM",
           "START_DATE", "START_TIME", "FINISH_DATE", "FINISH_TIME",
           "NUMBER_GUESTS">>
    [] tariff \in {"INCOGNITA_HOURS", "INCOGNITA_DAY"} ->
         <<"PHOTOSHOOT", "START_DATE", "START_TIME", "FINISH_DATE",
           "FINISH_TIME", "NUMBER_GUESTS">>
    [] OTHER -> << >>          \* RATE_REQUIREMENTS.get(tariff_enum, [])

BASE_REQUIRED == <<"TARIFF", "CONTACT", "COMMENT">>

\* a context dict: every key is ABSENT or holds a value
EmptyContext == [f \in BookingField |-> "ABSENT"]

\* truthiness of a dict: non-empty
NonEmpty(ctx) == \E f \in BookingField : ctx[f] # "ABSENT"

SeqToSet(s) == {s[i] : i \in 1..Len(s)}

(***************************************************************************)
(* Tariff values found in a context: the enum members written by the       *)
(* heuristic parser, and the strings written by the LLM extractor.         *)
(***************************************************************************)
\* the conversion with the daily tariff as the result for an unknown string
convert_tariff_string_to_enum_default_day(tariff_str) ==
  CASE tariff_str = "12 chasov" -> "HOURS_12"
    [] tariff_str = "rabochiy"  -> "WORKER"
    [] OTHER -> "DAY"

convert_tariff_string_to_enum(tariff_str) ==
  CASE tariff_str = "12 chasov" -> "HOURS_12"     \* tariff_mapping hit
    [] tariff_str = "rabochiy"  -> "WORKER"       \* tariff_mapping hit
    [] OTHER -> "None"                            \* "junk", "": no rule

\* the tariff conversion inside _first_missing
FirstMissingTariffEnum(tariff_value) ==
  IF tariff_value \in Tariff
    THEN tariff_value                    \* Tariff is an int enum: Tariff(v)
    ELSE convert_tariff_string_to_enum(tariff_value)  \* str, not a digit

get_tariff_enum_from_context(ctx) ==
  IF ctx["TARIFF"] \in {"ABSENT", "None"} THEN "None"
  ELSE IF ctx["TARIFF"] \in Tariff THEN ctx["TARIFF"]
  ELSE convert_tariff_string_to_enum(ctx["TARIFF"])

\* the loop's test without the special case for COMMENT
FieldMissing_comment_as_others(ctx, field) ==
  ctx[field] \in {"ABSENT", "None", ""}

\* is the field missing, as the loop of _first_missing tests it
FieldMissing(ctx, field) ==
  IF field = "COMMENT"
    THEN ctx[field] = "ABSENT"
    ELSE ctx[field] \in {"ABSENT", "None", ""}

RECURSIVE FirstIn(_, _, _)
FirstIn(ctx, required_fields, i) ==
  IF i > Len(required_fields) THEN "None"
  ELSE IF FieldMissing(ctx, required_fields[i]) THEN required_fields[i]
  ELSE FirstIn(ctx, required_fields, i + 1)

\* _first_missing without "+ BASE_REQUIRED" for a known tariff
first_missing_no_base(ctx) ==
  IF ctx["TARIFF"] \in {"ABSENT", "None"} THEN "TARIFF"
  ELSE LET tariff_enum == FirstMissingTariffEnum(ctx["TARIFF"])
           required_fields ==
             IF tariff_enum = "None" THEN BASE_REQUIRED
             ELSE RATE_REQUIREMENTS(tariff_enum)
       IN  FirstIn(ctx, required_fields, 1)

first_missing(ctx) ==
  IF ctx["TARIFF"] \in {"ABSENT", "None"} THEN "TARIFF"
  ELSE LET tariff_enum == FirstMissingTariffEnum(ctx["TARIFF"])
           required_fields ==
             IF tariff_enum = "None" THEN BASE_REQUIRED
             ELSE RATE_REQUIREMENTS(tariff_enum) \o BASE_REQUIRED
       IN  FirstIn(ctx, required_fields, 1)

(***************************************************************************)
(* The inbound texts of the model and what the parsers make of each.       *)
(***************************************************************************)
Texts ==
  {"da", "net", "12", "10.03", "@anna", "rabochiy", "podtverzhdayu",
   "tsena", "bron", "chto takoe"}

\* core/utils/string_helper.py
parse_yes_no(s) ==
  CASE s \in {"da"} -> "True"
    [] s \in {"net"} -> "False"
    [] OTHER -> "None"

\* "12": isdigit, Tariff(12) raises ValueError, then the rule '"12" in low'
parse_tariff_from_text(text) ==
  CASE text = "12" -> "HOURS_12"
    [] text = "rabochiy" -> "WORKER"
    [] OTHER -> "None"

is_date(s) == s = "10.03"
norm_date(s) == "10.03.YYYY"           \* the current year is appended
extract_date_from_natural_language(text) == "None"   \* no month name in Texts
is_time(s) == s = "12"
norm_time(s) == "12:00"
isdigit(s) == s = "12"
startswith_contact(s) == s = "@anna"   \* text.startswith("@") or "+"

StandardNoResponses == {"net"}         \* of the six phrases, those in Texts

(***************************************************************************)
(* The LLM extractor: a partial field map (absent keys are ABSENT), or an  *)
(* exception.  raises is "None" when the call returns, "Exception" for an  *)
(* error of the client or the parser (a timeout of the client is one), and *)
(* "CancelledError" when the awaited call is cancelled: a BaseException.   *)
(***************************************************************************)
LLMNothing == EmptyContext
LLMResults ==
  { LLMNothing,
    [LLMNothing EXCEPT !["SECOND_BEDROOM"] = "False"] }
\* what one call of booking_extractor.aextract does
LLMOutcomes ==
  {[raises |-> "None", parsed |-> p] : p \in LLMResults}
    \cup {[raises |-> e, parsed |-> LLMNothing] :
             e \in {"Exception", "CancelledError"}}

\* the call returned, without any field
LLMReturnsNothing == [raises |-> "None", parsed |-> LLMNothing]

\* "except Exception" in _process_user_text
CaughtByExceptException(e) == e = "Exception"

\* dict.update
DictUpdate(ctx, parsed) ==
  [f \in BookingField |-> IF parsed[f] # "ABSENT" THEN parsed[f] ELSE ctx[f]]

(***************************************************************************)
(* Slot filling                                                            *)
(***************************************************************************)
handle_summary_mode_input(text, was_done) ==
  IF ~(was_done /\ text # "") THEN text
  ELSE IF text = "podtverzhdayu" THEN text
  ELSE IF text \in StandardNoResponses THEN text
  ELSE ""

handle_bedroom_logic(ctx, field, value) ==
  IF field = "SECOND_BEDROOM"
    THEN IF value = "False"
           THEN [ctx EXCEPT ![field] = value, !["FIRST_BEDROOM"] = "True"]
           ELSE [ctx EXCEPT ![field] = value]
    ELSE [ctx EXCEPT ![field] = value]

parse_field_value(ctx, field, text) ==
  CASE field = "TARIFF" ->
         IF parse_tariff_from_text(text) # "None"
           THEN [ctx EXCEPT ![field] = parse_tariff_from_text(text)]
           ELSE ctx
    [] field \in {"FIRST_BEDROOM", "SECOND_BEDROOM", "SAUNA", "PHOTOSHOOT",
                  "SECRET_ROOM"} ->
         LET v == parse_yes_no(text)
         IN  IF v = "None" THEN ctx
             ELSE IF field \in {"FIRST_BEDROOM", "SECOND_BEDROOM"}
               THEN handle_bedroom_logic(ctx, field, v)
               ELSE [ctx EXCEPT ![field] = v]
    [] field \in {"START_DATE", "FINISH_DATE"} ->
         IF is_date(text) THEN [ctx EXCEPT ![field] = norm_date(text)]
         ELSE IF extract_date_from_natural_language(text) # "None"
           THEN [ctx EXCEPT ![field] = extract_date_from_natural_language(text)]
           ELSE ctx
    [] field \in {"START_TIME", "FINISH_TIME"} ->
         IF is_time(text) THEN [ctx EXCEPT ![field] = norm_time(text)] ELSE ctx
    [] field = "NUMBER_GUESTS" ->
         IF isdigit(text) THEN [ctx EXCEPT ![field] = text] ELSE ctx
    [] field = "CONTACT" ->
         IF startswith_contact(text) THEN [ctx EXCEPT ![field] = text] ELSE ctx
    [] field = "COMMENT" ->
         [ctx EXCEPT ![field] = IF text \in {"net"} THEN "None" ELSE text]
    [] OTHER -> ctx

\* llm is what booking_extractor.aextract does in this call
process_user_text(ctx, text, llm) ==
  LET merged == IF CaughtByExceptException(llm.raises) THEN ctx
                ELSE IF NonEmpty(llm.parsed) THEN DictUpdate(ctx, llm.parsed)
                ELSE ctx
      missing_field == first_missing(merged)
  IN  IF missing_field # "None"
        THEN parse_field_value(merged, missing_field, text)
        ELSE merged

(***************************************************************************)
(* Replies.  A reply is its kind, the field a question asks for, and the   *)
(* lines of a summary (field -> rendered value, "" when the line is not    *)
(* printed).                                                               *)
(***************************************************************************)
NoLines == [f \in BookingField |-> ""]
Reply(kind) == [kind |-> kind, field |-> "None", shown |-> NoLines]
NoReply == Reply("None")

get_rate_display_name(tariff) ==
  CASE tariff = "DAY" -> "SUTOCHNO OT 3 LYUDEY"
    [] tariff = "DAY_FOR_COUPLE" -> "SUTOCHNO DLYA PAR"
    [] tariff = "HOURS_12" -> "12 CHASOV"
    [] tariff = "WORKER" -> "RABOCHIY (Pn-Cht)"
    [] tariff = "INCOGNITA_HOURS" -> "INKOGNITO 12 CHASOV"
    [] tariff = "INCOGNITA_DAY" -> "INKOGNITO NA SUTKI"
    [] OTHER -> tariff

YesNoLine(v) == IF v \in {"False", "None", "", "ABSENT"} THEN "net" ELSE "da"

format_booking_summary(ctx, tariff, required_fields) ==
  LET req == SeqToSet(required_fields)
  IN  [f \in BookingField |->
        CASE f = "TARIFF" -> get_rate_display_name(tariff)
          [] f \in {"START_DATE", "START_TIME", "FINISH_DATE", "FINISH_TIME"} ->
               IF "START_DATE" \in req THEN ctx[f] ELSE ""
          [] f \in {"FIRST_BEDROOM", "SECOND_BEDROOM", "SAUNA", "PHOTOSHOOT",
                    "SECRET_ROOM"} ->
               IF f \in req THEN YesNoLine(ctx[f]) ELSE ""
          [] f = "NUMBER_GUESTS" -> IF f \in req THEN ctx[f] ELSE ""
          [] f = "CONTACT" -> ctx[f]
          [] f = "COMMENT" -> IF ctx[f] \in {"None", ""} THEN "-" ELSE ctx[f]]

\* _ask_for_missing_field without '"text": ""' in what it returns
ask_for_missing_field_keeps_text(ctx, field) ==
  [context |-> ctx,
   reply |-> [kind |-> "question", field |-> field, shown |-> NoLines],
   done |-> "False", await_input |-> "False", last_asked |-> field,
   active_subgraph |-> "booking"]

ask_for_missing_field(ctx, field) ==
  [context |-> ctx, text |-> "",
   reply |-> [kind |-> "question", field |-> field, shown |-> NoLines],
   done |-> "False", await_input |-> "False", last_asked |-> field,
   active_subgraph |-> "booking"]

generate_booking_summary(ctx) ==
  LET tariff_enum == get_tariff_enum_from_context(ctx)
      required_fields == RATE_REQUIREMENTS(tariff_enum) \o BASE_REQUIRED
  IN  [context |-> ctx,
       reply |-> [kind |-> "summary", field |-> "None",
                  shown |-> format_booking_summary(ctx, ctx["TARIFF"],
                                                   required_fields)],
       done |-> "True", await_input |-> "True", active_subgraph |-> "booking"]

(***************************************************************************)
(* Graph state.  A graph keeps one channel per key of its state schema: a  *)
(* key outside the schema is neither stored nor passed on.                 *)
(***************************************************************************)
AppStateKeys ==
  {"user_id", "text", "intent", "active_subgraph", "context", "reply",
   "await_input", "faq_data", "faq_context"}
BookingStateKeys == {"context", "text", "reply", "done"}

\* dict.get(key): None when the key is not there
Get(r, k) == IF k \in DOMAIN r THEN r[k] ELSE "None"
Truthy(v) == v \notin {"None", "False", "", "ABSENT"}
\* (s.get("text") or "").strip().lower(): the texts are already normal
Norm(text) == IF text = "None" THEN "" ELSE text

\* the channels after a node (or the input) wrote `out`
Update(state, out, keys) ==
  [k \in DOMAIN state |->
     IF k \in (DOMAIN out) \cap keys THEN out[k] ELSE state[k]]

\* a thread without a checkpoint
EmptyAppState ==
  [text |-> "None", intent |-> "None", active_subgraph |-> "None",
   context |-> EmptyContext, reply |-> NoReply, await_input |-> "None",
   faq_context |-> "None"]
EmptyBookingState ==
  [context |-> EmptyContext, text |-> "None", reply |-> NoReply,
   done |-> "None"]

(***************************************************************************)
(* Booking sub-graph nodes                                                 *)
(***************************************************************************)
ask_or_fill(state, llm) ==
  LET text == handle_summary_mode_input(Norm(state.text),
                                        Truthy(Get(state, "done")))
      ctx == IF text # "" THEN process_user_text(state.context, text, llm)
             ELSE state.context
      missing_field == first_missing(ctx)
  IN  IF missing_field # "None"
        THEN ask_for_missing_field(ctx, missing_field)
        ELSE generate_booking_summary(ctx)

\* the text ask_or_fill hands to _process_user_text ("" when it does not)
ProcessedText(state) ==
  handle_summary_mode_input(Norm(state.text), Truthy(Get(state, "done")))

payment_request(state) ==
  [context |-> state.context, reply |-> Reply("payment"),
   payment_status |-> "pending", await_input |-> "True",
   active_subgraph |-> "booking", done |-> "False"]

finalize(state) ==
  [reply |-> Reply("final"), done |-> "True",
   payment_status |-> "proof_uploaded"]

branch(s) ==
  LET t == Norm(s.text)
      payment_status == Get(s, "payment_status")
  IN  IF payment_status = "proof_uploaded" THEN "final"
      ELSE IF Truthy(Get(s, "done")) /\ t = "podtverzhdayu" THEN "payment"
      ELSE IF payment_status = "pending" /\ t = "" THEN "await"
      ELSE IF Truthy(Get(s, "done")) /\ t = "" THEN "await"
      ELSE IF t # "" THEN "continue"
      ELSE "await"

(***************************************************************************)
(* Application graph                                                       *)
(***************************************************************************)
\* the keyword patterns of router_node that re.search finds in a text:
\* "daty" = "даты", "izmenit" = "изменить", "pravila" = "правила",
\* "privet" = "привет"
KeywordClasses(t) ==
  CASE t = "bron" -> {"booking"}
    [] t = "tsena" -> {"price"}
    [] t = "daty" -> {"availability"}
    [] t = "izmenit" -> {"change"}
    [] t = "chto takoe" -> {"faq"}
    [] t = "bron tsena" -> {"booking", "price"}
    [] t = "tsena daty" -> {"price", "availability"}
    [] t = "daty izmenit" -> {"availability", "change"}
    [] t = "izmenit pravila" -> {"change", "faq"}
    [] t = "bron podtverzhdayu" -> {"booking"}
    [] OTHER -> {}

\* "подтверждаю" in t
ContainsConfirm(t) == t \in {"podtverzhdayu", "bron podtverzhdayu"}

\* the keyword rules with the price patterns tried before the booking ones
KeywordIntent_price_first(t) ==
  IF "price" \in KeywordClasses(t) THEN [intent |-> "price"]
  ELSE IF "booking" \in KeywordClasses(t)
    THEN [intent |-> "booking", active_subgraph |-> "booking"]
  ELSE IF "availability" \in KeywordClasses(t)
    THEN [intent |-> "availability"]
  ELSE IF "change" \in KeywordClasses(t) THEN [intent |-> "change"]
  ELSE IF "faq" \in KeywordClasses(t) THEN [intent |-> "faq"]
  ELSE [intent |-> "unknown"]

\* the keyword rules of router_node, in the order of its "if" statements
KeywordIntent(t) ==
  IF "booking" \in KeywordClasses(t)
    THEN [intent |-> "booking", active_subgraph |-> "booking"]
  ELSE IF "price" \in KeywordClasses(t) THEN [intent |-> "price"]
  ELSE IF "availability" \in KeywordClasses(t)
    THEN [intent |-> "availability"]
  ELSE IF "change" \in KeywordClasses(t) THEN [intent |-> "change"]
  ELSE IF "faq" \in KeywordClasses(t) THEN [intent |-> "faq"]
  ELSE [intent |-> "unknown"]

router_node(s) ==
  LET t == Norm(s.text)
  IN  IF /\ s.active_subgraph = "booking"
         /\ Truthy(s.await_input)
         /\ ~Truthy(Get(s, "done"))
        THEN [intent |-> "booking", active_subgraph |-> "booking"]
      ELSE IF /\ NonEmpty(s.context)
              /\ ~Truthy(s.active_subgraph)
              /\ ~Truthy(Get(s, "done"))
        THEN [intent |-> "booking", active_subgraph |-> "booking"]
      ELSE IF Truthy(Get(s, "done")) /\ ContainsConfirm(t)
        THEN [intent |-> "booking", active_subgraph |-> "booking"]
      ELSE IF Truthy(s.faq_context) THEN [intent |-> "faq"]
      ELSE KeywordIntent(t)

\* the conditional edge without the priority of the active sub-graph
app_branch_intent_only(s) ==
  LET key == IF NonEmpty(s.context) /\ s.intent = "booking" THEN "booking"
             ELSE IF s.intent = "None" THEN "unknown" ELSE s.intent
  IN  CASE key = "booking" -> "booking"
        [] key = "availability" -> "availability"
        [] key = "price" -> "pricing"
        [] key = "faq" -> "faq"
        [] OTHER -> "fallback"

\* the conditional edge after the router, mapped to the node it selects
app_branch(s) ==
  LET key == IF s.active_subgraph = "booking" THEN "booking"
             ELSE IF NonEmpty(s.context) /\ s.intent = "booking" THEN "booking"
             ELSE IF s.intent = "None" THEN "unknown" ELSE s.intent
  IN  CASE key = "booking" -> "booking"
        [] key = "availability" -> "availability"
        [] key = "price" -> "pricing"
        [] key = "faq" -> "faq"
        [] OTHER -> "fallback"          \* "change", "unknown"

\* the handlers other than booking; ok = the collaborator did not raise
LeafNode(node, s, ok) ==
  CASE node = "fallback" -> [reply |-> Reply("fallback")]
    [] node = "pricing" ->
         IF ok THEN [reply |-> Reply("price"), intent |-> "price",
                     pricing_data |-> "data"]
         ELSE [reply |-> Reply("price_error"), intent |-> "price",
               error |-> "error"]
    [] node = "faq" ->
         IF ok THEN [reply |-> Reply("faq"), faq_data |-> "data",
                     faq_context |-> "history", intent |-> "faq"]
         ELSE [reply |-> Reply("faq_error"), intent |-> "faq",
               error |-> "error"]
    [] node = "availability" ->
         IF ok THEN [reply |-> Reply("availability"),
                     availability_data |-> "data"]
         ELSE [reply |-> Reply("availability_error"), error |-> "error"]

(***************************************************************************)
(* State.  Each handler module builds its own graph, and every graph has   *)
(* its own MemorySaver: store[g][c] is the latest checkpoint that graph g  *)
(* holds for thread c.  A task is one running handler coroutine.           *)
(***************************************************************************)
Graphs == {"messages", "payments"}
Convs == {"c1", "c2"}

VARIABLES
  store,      \* [Graphs -> [Convs -> channel values]]
  pc,         \* task -> position of the handler
  kind,       \* task -> "text" (handle_message) / "proof" (process_payment_proof)
  conv,       \* task -> thread_id
  msg,        \* task -> message.text
  prev,       \* task -> previous_state read by aget_state
  st,         \* task -> channels of the running application graph
  route,      \* task -> node the router's edge selected
  sub,        \* task -> channels of the running booking sub-graph
  node,       \* task -> next node of the booking sub-graph
  steps,      \* task -> supersteps the booking sub-graph has run
  result,     \* task -> reply the handler is about to send
  raised,     \* task -> exception that ended graph.ainvoke
  extracted,  \* task -> text the last ask_or_fill gave to _process_user_text
  failed,     \* task -> exception aextract raised in the last ask_or_fill
  call,       \* a function applied on its own: its name and arguments
  ret         \* what that call returned

\* RateLimitMiddleware, for the messages of one user
VARIABLES
  redis,          \* the value under the key rate_limit:{user_id}; 0 = no key
  mpc,            \* message -> position of the middleware call that serves it
  current_count,  \* message -> what redis.get returned (0 = None)
  invoked,        \* message -> times the downstream handler was called
  through         \* messages passed on to the handler since the key exists

mwvars == <<redis, mpc, current_count, invoked, through>>

vars == <<store, pc, kind, conv, msg, prev, st, route, sub, node, steps,
          result, raised, extracted, failed, call, ret, mwvars>>

\* no function is being applied on its own
NoCall == [fn |-> "None"]

GraphOf(k) == IF k = "proof" THEN "payments" ELSE "messages"

\* one thread for all conversations
ThreadOf_shared(h) == "c1"

\* config={"configurable": {"thread_id": thread_id}}: the thread a handler
\* reads and writes is the one of its chat and user
ThreadOf(h) == conv[h]

\* the limit of the model (settings.rate_limit_per_minute)
rate_limit == 2

\* the messages of the user that reach the middleware
Events == 1 .. (rate_limit + 1)

InitRateLimit ==
  /\ redis = 0
  /\ mpc = [m \in Events |-> "new"]
  /\ current_count = [m \in Events |-> 0]
  /\ invoked = [m \in Events |-> 0]
  /\ through = {}

Init ==
  /\ store = [g \in Graphs |-> [c \in Convs |-> EmptyAppState]]
  /\ pc = [h \in Tasks |-> "idle"]
  /\ kind = [h \in Tasks |-> "None"]
  /\ conv = [h \in Tasks |-> "None"]
  /\ msg = [h \in Tasks |-> "None"]
  /\ prev = [h \in Tasks |-> EmptyAppState]
  /\ st = [h \in Tasks |-> EmptyAppState]
  /\ route = [h \in Tasks |-> "None"]
  /\ sub = [h \in Tasks |-> EmptyBookingState]
  /\ node = [h \in Tasks |-> "None"]
  /\ steps = [h \in Tasks |-> 0]
  /\ result = [h \in Tasks |-> NoReply]
  /\ raised = [h \in Tasks |-> "None"]
  /\ extracted = [h \in Tasks |-> "None"]
  /\ failed = [h \in Tasks |-> "None"]
  /\ call = NoCall
  /\ ret = "None"
  /\ InitRateLimit

\* a text message arrives and handle_message starts
ReceiveText(h, C, T) ==
  /\ pc[h] = "idle"
  /\ \E c \in C, t \in T :
       /\ conv' = [conv EXCEPT ![h] = c]
       /\ msg' = [msg EXCEPT ![h] = t]
  /\ kind' = [kind EXCEPT ![h] = "text"]
  /\ pc' = [pc EXCEPT ![h] = "load"]
  /\ UNCHANGED <<store, prev, st, route, sub, node, steps, result, raised,
                 extracted>>
  /\ UNCHANGED <<failed, call, ret, mwvars>>

\* a document or photo arrives and process_payment_proof starts
ReceiveProof(h, C) ==
  /\ pc[h] = "idle"
  /\ \E c \in C : conv' = [conv EXCEPT ![h] = c]
  /\ msg' = [msg EXCEPT ![h] = ""]
  /\ kind' = [kind EXCEPT ![h] = "proof"]
  /\ pc' = [pc EXCEPT ![h] = "load"]
  /\ UNCHANGED <<store, prev, st, route, sub, node, steps, result, raised,
                 extracted>>
  /\ UNCHANGED <<failed, call, ret, mwvars>>

\* graph.aget_state, with a proof handler that goes on whatever the status
Load_unchecked(h) ==
  /\ pc[h] = "load"
  /\ prev' = [prev EXCEPT ![h] = store[GraphOf(kind[h])][ThreadOf(h)]]
  /\ pc' = [pc EXCEPT ![h] = "invoke"]
  /\ UNCHANGED <<store, kind, conv, msg, st, route, sub, node, steps, raised,
                 extracted, result>>
  /\ UNCHANGED <<failed, call, ret, mwvars>>

\* graph.aget_state; the proof handler returns here unless payment is pending
Load(h) ==
  /\ pc[h] = "load"
  /\ LET previous_state == store[GraphOf(kind[h])][ThreadOf(h)]
     IN  /\ prev' = [prev EXCEPT ![h] = previous_state]
         /\ IF kind[h] = "proof"
               /\ Get(previous_state, "payment_status") # "pending"
              THEN /\ result' = [result EXCEPT ![h] = Reply("confirm_first")]
                   /\ pc' = [pc EXCEPT ![h] = "answer"]
              ELSE /\ pc' = [pc EXCEPT ![h] = "invoke"]
                   /\ UNCHANGED result
  /\ UNCHANGED <<store, kind, conv, msg, st, route, sub, node, steps, raised,
                 extracted>>
  /\ UNCHANGED <<failed, call, ret, mwvars>>

\* the graph_state each handler builds
GraphInput(h) ==
  IF kind[h] = "proof"
    THEN [user_id |-> "user", text |-> "", active_subgraph |-> "booking",
          context |-> prev[h].context, payment_status |-> "proof_uploaded",
          payment_proof |-> "proof",
          done |-> IF Get(prev[h], "done") = "None" THEN "False"
                   ELSE Get(prev[h], "done")]
    ELSE [user_id |-> "user", text |-> msg[h],
          active_subgraph |-> prev[h].active_subgraph,
          context |-> prev[h].context, intent |-> prev[h].intent,
          await_input |-> prev[h].await_input, done |-> Get(prev[h], "done"),
          last_asked |-> Get(prev[h], "last_asked")]

\* graph.ainvoke starts: the input is written over the thread's checkpoint
Invoke(h) ==
  /\ pc[h] = "invoke"
  /\ LET g == GraphOf(kind[h])
         s == Update(store[g][ThreadOf(h)], GraphInput(h), AppStateKeys)
     IN  /\ st' = [st EXCEPT ![h] = s]
         /\ store' = [store EXCEPT ![g][ThreadOf(h)] = s]
  /\ pc' = [pc EXCEPT ![h] = "router"]
  /\ UNCHANGED <<kind, conv, msg, prev, route, sub, node, steps, result,
                 raised, extracted>>
  /\ UNCHANGED <<failed, call, ret, mwvars>>

\* superstep 1: router_node, then the conditional edge
RouterStep(h) ==
  /\ pc[h] = "router"
  /\ LET g == GraphOf(kind[h])
         s == Update(st[h], router_node(st[h]), AppStateKeys)
         n == app_branch(s)
     IN  /\ st' = [st EXCEPT ![h] = s]
         /\ store' = [store EXCEPT ![g][ThreadOf(h)] = s]
         /\ route' = [route EXCEPT ![h] = n]
         /\ IF n = "booking"
              THEN /\ pc' = [pc EXCEPT ![h] = "booking"]
                   /\ sub' = [sub EXCEPT
                                ![h] = Update(EmptyBookingState, s,
                                              BookingStateKeys)]
                   /\ node' = [node EXCEPT ![h] = "ask_or_fill"]
              ELSE /\ pc' = [pc EXCEPT ![h] = "leaf"]
                   /\ UNCHANGED <<sub, node>>
  /\ UNCHANGED <<kind, conv, msg, prev, steps, result, raised, extracted>>
  /\ UNCHANGED <<failed, call, ret, mwvars>>

\* result.get("reply", "Извините, произошла ошибка")
ReplyOf(s) == IF s.reply = NoReply THEN Reply("error") ELSE s.reply

\* superstep 2 when the edge selected availability, pricing, faq or fallback
LeafStep(h) ==
  /\ pc[h] = "leaf"
  /\ \E ok \in BOOLEAN :
       LET g == GraphOf(kind[h])
           s == Update(st[h], LeafNode(route[h], st[h], ok), AppStateKeys)
       IN  /\ st' = [st EXCEPT ![h] = s]
           /\ store' = [store EXCEPT ![g][ThreadOf(h)] = s]
           /\ result' = [result EXCEPT ![h] = ReplyOf(s)]
  /\ pc' = [pc EXCEPT ![h] = "answer"]
  /\ UNCHANGED <<kind, conv, msg, prev, route, sub, node, steps, raised,
                 extracted>>
  /\ UNCHANGED <<failed, call, ret, mwvars>>

\* the node the booking sub-graph runs next, after `branch` ("END" = leave)
NextNode(s) ==
  CASE branch(s) = "payment" -> "payment_request"
    [] branch(s) = "final" -> "finalize"
    [] branch(s) = "continue" -> "ask_or_fill"
    [] OTHER -> "END"

\* does this run of ask_or_fill call booking_extractor.aextract
CallsExtractor(h) == node[h] = "ask_or_fill" /\ ProcessedText(sub[h]) # ""

\* one superstep of the booking sub-graph; on END its channels are written
\* to the application graph, which checkpoints and returns.  An exception
\* of aextract that "except Exception" does not catch leaves ask_or_fill,
\* the graph and the handler (whose own clause is "except Exception" too):
\* nothing of the node is written and nothing is sent
BookingStep(h, L) ==
  /\ pc[h] = "booking"
  /\ steps[h] < RecursionLimit
  /\ \E llm \in L :
       LET g == GraphOf(kind[h])
           out == CASE node[h] = "ask_or_fill" -> ask_or_fill(sub[h], llm)
                    [] node[h] = "payment_request" -> payment_request(sub[h])
                    [] node[h] = "finalize" -> finalize(sub[h])
           b == Update(sub[h], out, BookingStateKeys)
           n == IF node[h] = "ask_or_fill" THEN NextNode(b) ELSE "END"
           s == Update(st[h], b, AppStateKeys)
           exc == IF CallsExtractor(h) THEN llm.raises ELSE "None"
       IN  /\ failed' = [failed EXCEPT ![h] = exc]
           /\ IF exc # "None" /\ ~CaughtByExceptException(exc)
                THEN /\ raised' = [raised EXCEPT ![h] = exc]
                     /\ pc' = [pc EXCEPT ![h] = "answer"]
                     /\ UNCHANGED <<sub, node, extracted, st, store, result,
                                    steps>>
                ELSE /\ sub' = [sub EXCEPT ![h] = b]
                     /\ node' = [node EXCEPT ![h] = n]
                     /\ extracted' = [extracted EXCEPT
                                        ![h] = IF node[h] = "ask_or_fill"
                                                 THEN ProcessedText(sub[h])
                                                 ELSE extracted[h]]
                     /\ steps' = [steps EXCEPT ![h] = steps[h] + 1]
                     /\ IF n = "END"
                          THEN /\ st' = [st EXCEPT ![h] = s]
                               /\ store' = [store EXCEPT ![g][ThreadOf(h)] = s]
                               /\ result' = [result EXCEPT ![h] = ReplyOf(s)]
                               /\ pc' = [pc EXCEPT ![h] = "answer"]
                          ELSE UNCHANGED <<st, store, result, pc>>
                     /\ UNCHANGED raised
  /\ UNCHANGED <<kind, conv, msg, prev, route>>
  /\ UNCHANGED <<call, ret, mwvars>>

\* the sub-graph is out of supersteps: GraphRecursionError leaves
\* graph.ainvoke, nothing of the booking node is written, and the handler's
\* except clause answers
BookingRecursionError(h) ==
  /\ pc[h] = "booking"
  /\ steps[h] >= RecursionLimit
  /\ raised' = [raised EXCEPT ![h] = "GraphRecursionError"]
  /\ result' = [result EXCEPT ![h] = Reply("error")]
  /\ pc' = [pc EXCEPT ![h] = "answer"]
  /\ UNCHANGED <<store, kind, conv, msg, prev, st, route, sub, node, steps,
                 extracted>>
  /\ UNCHANGED <<failed, call, ret, mwvars>>

\* message.answer(reply), when the handler has a reply, and the handler
\* returns; it has none (NoReply) when an exception left it
Answer(h) ==
  /\ pc[h] = "answer"
  /\ pc' = [pc EXCEPT ![h] = "idle"]
  /\ kind' = [kind EXCEPT ![h] = "None"]
  /\ conv' = [conv EXCEPT ![h] = "None"]
  /\ msg' = [msg EXCEPT ![h] = "None"]
  /\ prev' = [prev EXCEPT ![h] = EmptyAppState]
  /\ st' = [st EXCEPT ![h] = EmptyAppState]
  /\ route' = [route EXCEPT ![h] = "None"]
  /\ sub' = [sub EXCEPT ![h] = EmptyBookingState]
  /\ node' = [node EXCEPT ![h] = "None"]
  /\ steps' = [steps EXCEPT ![h] = 0]
  /\ result' = [result EXCEPT ![h] = NoReply]
  /\ raised' = [raised EXCEPT ![h] = "None"]
  /\ extracted' = [extracted EXCEPT ![h] = "None"]
  /\ failed' = [failed EXCEPT ![h] = "None"]
  /\ UNCHANGED store
  /\ UNCHANGED <<call, ret, mwvars>>

\* the steps of the handler coroutines in H, for messages of the threads C
\* with texts T, the LLM extractor behaving as in L
Step(H, C, T, L) ==
  \E h \in H :
    \/ ReceiveText(h, C, T)
    \/ ReceiveProof(h, C)
    \/ Load(h)
    \/ Invoke(h)
    \/ RouterStep(h)
    \/ LeafStep(h)
    \/ BookingStep(h, L)
    \/ BookingRecursionError(h)
    \/ Answer(h)

\* one conversation whose messages arrive one after the other: every
\* handler has returned before the next message is delivered
Next == Step({1}, {"c1"}, Texts, LLMOutcomes)

Spec == Init /\ [][Next]_vars

(***************************************************************************)
(* Several handlers of one conversation in flight at once.  The thread     *)
(* starts either without a checkpoint or with the checkpoint left by the   *)
(* turn that answered the contact question of a 12-hour booking.           *)
(***************************************************************************)
ContextBeforeComment ==
  [EmptyContext EXCEPT
     !["TARIFF"] = "HOURS_12", !["SAUNA"] = "True", !["SECRET_ROOM"] = "True",
     !["SECOND_BEDROOM"] = "True", !["FIRST_BEDROOM"] = "True",
     !["START_DATE"] = "10.03.YYYY", !["START_TIME"] = "12:00",
     !["FINISH_DATE"] = "10.03.YYYY", !["FINISH_TIME"] = "12:00",
     !["NUMBER_GUESTS"] = "12", !["CONTACT"] = "@anna"]

StateBeforeComment ==
  [text |-> "", intent |-> "unknown", active_subgraph |-> "booking",
   context |-> ContextBeforeComment,
   reply |-> [kind |-> "question", field |-> "COMMENT", shown |-> NoLines],
   await_input |-> "None", faq_context |-> "None"]

ConcTexts == {"da", "podtverzhdayu"}

InitConc ==
  /\ \E s \in {EmptyAppState, StateBeforeComment} :
       store = [g \in Graphs |->
                  [c \in Convs |->
                     IF g = "messages" /\ c = "c1" THEN s ELSE EmptyAppState]]
  /\ pc = [h \in Tasks |-> "idle"]
  /\ kind = [h \in Tasks |-> "None"]
  /\ conv = [h \in Tasks |-> "None"]
  /\ msg = [h \in Tasks |-> "None"]
  /\ prev = [h \in Tasks |-> EmptyAppState]
  /\ st = [h \in Tasks |-> EmptyAppState]
  /\ route = [h \in Tasks |-> "None"]
  /\ sub = [h \in Tasks |-> EmptyBookingState]
  /\ node = [h \in Tasks |-> "None"]
  /\ steps = [h \in Tasks |-> 0]
  /\ result = [h \in Tasks |-> NoReply]
  /\ raised = [h \in Tasks |-> "None"]
  /\ extracted = [h \in Tasks |-> "None"]
  /\ failed = [h \in Tasks |-> "None"]
  /\ call = NoCall
  /\ ret = "None"
  /\ InitRateLimit

NextConc ==
  Step(Tasks, {"c1"}, ConcTexts, {LLMReturnsNothing})

SpecConc == InitConc /\ [][NextConc]_vars

\* the checkpoint SpecConc may start from is one Spec reaches
StateBeforeCommentUnreached == store["messages"]["c1"] # StateBeforeComment

(***************************************************************************)
(* PricingService.  A tariff table is the ordered dict that                *)
(* _load_tariff_rates builds from the configuration file: a sequence of    *)
(* tariff records in file order (empty when the file is missing or cannot  *)
(* be read).  multi_day_prices maps a day count, the digits of its key, to *)
(* a price.  A Decimal is the fraction num/den.  -1 stands for None in an  *)
(* integer field of a request.  Strings are transliterated:                *)
(*   "sutochn" = "суточн", "dvoih" = "двоих", "3 chelovek" = "3 человек",  *)
(*   "inkognito" = "инкогнито", "den" = "день", "abonement" = "абонемент". *)
(***************************************************************************)
MaxDays == 5

Dec(n) == [num |-> n, den |-> 1]
DecMulDiv(a, m, d) == [num |-> a.num * m, den |-> a.den * d]
DecAdd(a, b) == [num |-> a.num * b.den + b.num * a.den, den |-> a.den * b.den]
DecEq(a, b) == a.num * b.den = b.num * a.den

NoId == -1
NoTariff ==
  [tariff |-> NoId, name |-> "", price |-> 0, sauna_price |-> 0,
   secret_room_price |-> 0, second_bedroom_price |-> 0,
   photoshoot_price |-> 0, subscription_type |-> 0,
   multi_day_prices |-> << >>]

TariffDay3 ==
  [tariff |-> 1, name |-> "tarif 'sutochno' ot 3 chelovek", price |-> 700,
   sauna_price |-> 100, secret_room_price |-> 0, second_bedroom_price |-> 0,
   photoshoot_price |-> 100, subscription_type |-> 0,
   multi_day_prices |-> (1 :> 700 @@ 2 :> 1300 @@ 3 :> 1850)]
TariffDay3Gap ==
  [TariffDay3 EXCEPT !.multi_day_prices = (1 :> 700 @@ 3 :> 1850)]
TariffCouple ==
  [tariff |-> 7, name |-> "tarif 'sutochno' dlya dvoih'", price |-> 500,
   sauna_price |-> 100, secret_room_price |-> 0, second_bedroom_price |-> 0,
   photoshoot_price |-> 100, subscription_type |-> 0,
   multi_day_prices |-> (1 :> 500 @@ 2 :> 900)]
TariffHours12 ==
  [tariff |-> 0, name |-> "tarif '12 chasov'", price |-> 250,
   sauna_price |-> 100, secret_room_price |-> 70, second_bedroom_price |-> 70,
   photoshoot_price |-> 0, subscription_type |-> 0,
   multi_day_prices |-> << >>]

\* the table of the service's tests, the same with a day count left out of
\* a price table, a table without tariff 1, and the table of a missing file
TariffTables ==
  { <<TariffDay3, TariffCouple, TariffHours12>>,
    <<TariffDay3Gap, TariffCouple, TariffHours12>>,
    <<TariffCouple, TariffHours12>>,
    << >> }

\* self.tariff_rates.get(tariff_id)
RECURSIVE TableGet(_, _, _)
TableGet(tariff_rates, tariff_id, i) ==
  IF i > Len(tariff_rates) THEN NoTariff
  ELSE IF tariff_rates[i].tariff = tariff_id THEN tariff_rates[i]
  ELSE TableGet(tariff_rates, tariff_id, i + 1)

\* the keywords of _get_tariff_for_request that a string contains
KeywordsIn(str) ==
  CASE str \in {"sutochno ot 3 chelovek", "tarif 'sutochno' ot 3 chelovek"} ->
         {"sutochn", "3 chelovek", "3"}
    [] str \in {"sutochno dlya dvoih", "tarif 'sutochno' dlya dvoih'"} ->
         {"sutochn", "dvoih"}
    [] str \in {"12 chasov", "tarif '12 chasov'"} -> {"12"}
    [] str = "inkognito den" -> {"inkognito", "den"}
    [] str = "rabochiy" -> {"rabochiy"}
    [] OTHER -> {}

\* does the loop body return this tariff for the request's tariff string
TariffMatches(tariff_lower, tariff) ==
  LET t == KeywordsIn(tariff_lower)
      n == KeywordsIn(tariff.name)
  IN  \/ /\ "sutochn" \in t
         /\ "sutochn" \in n
         /\ \/ "dvoih" \in t /\ "dvoih" \in n
            \/ "3 chelovek" \in n
            \/ "dvoih" \notin t /\ "dvoih" \notin n
      \/ /\ "12" \in t
         /\ "12" \in n
         /\ \/ "inkognito" \in t /\ "inkognito" \in n
            \/ "inkognito" \notin t
      \/ "rabochiy" \in t /\ "rabochiy" \in n
      \/ /\ "inkognito" \in t
         /\ "inkognito" \in n
         /\ \/ "den" \in t /\ "den" \in n
            \/ "12" \in t /\ "12" \in n
      \/ /\ "abonement" \in t
         /\ "abonement" \in n
         /\ \/ "3" \in t /\ tariff.subscription_type = 3
            \/ "5" \in t /\ tariff.subscription_type = 5
            \/ "8" \in t /\ tariff.subscription_type = 8

RECURSIVE FirstMatch(_, _, _)
FirstMatch(tariff_rates, tariff_lower, i) ==
  IF i > Len(tariff_rates) THEN NoTariff
  ELSE IF TariffMatches(tariff_lower, tariff_rates[i]) THEN tariff_rates[i]
  ELSE FirstMatch(tariff_rates, tariff_lower, i + 1)

\* NoTariff is the None that the function returns
get_tariff_for_request(tariff_rates, request) ==
  IF request.tariff_id # NoId
    THEN TableGet(tariff_rates, request.tariff_id, 1)
  ELSE IF request.tariff \notin {"None", ""}
          /\ FirstMatch(tariff_rates, request.tariff, 1) # NoTariff
    THEN FirstMatch(tariff_rates, request.tariff, 1)
  ELSE TableGet(tariff_rates, 1, 1)

Max(a, b) == IF a >= b THEN a ELSE b

\* NoDays is the None of duration_days; None and 0 are both falsy
NoDays == -1

\* the duration with the dates consulted before the day count
calculate_duration_days_dates_first(request) ==
  IF request.start_date # -1 /\ request.end_date # -1
    THEN Max(1, request.end_date - request.start_date)
  ELSE IF request.duration_days \notin {NoDays, 0} THEN request.duration_days
  ELSE 1

\* start_date and end_date are day numbers, their difference is delta.days
calculate_duration_days(request) ==
  IF request.duration_days \notin {NoDays, 0} THEN request.duration_days
  ELSE IF request.start_date # -1 /\ request.end_date # -1
    THEN Max(1, request.end_date - request.start_date)
  ELSE 1

MaxOf(S) == CHOOSE x \in S : \A y \in S : y <= x

\* the base cost with the proportion of the extrapolation inverted
calculate_base_cost_inverted(tariff, duration_days) ==
  LET table == tariff.multi_day_prices
      max_days == MaxOf(DOMAIN table)
  IN  IF duration_days = 1 THEN Dec(tariff.price)
      ELSE IF DOMAIN table # {} /\ duration_days \in DOMAIN table
        THEN Dec(table[duration_days])
      ELSE IF DOMAIN table # {} /\ duration_days > max_days
        THEN DecMulDiv(Dec(table[max_days]), max_days, duration_days)
      ELSE DecMulDiv(Dec(tariff.price), duration_days, 1)

calculate_base_cost(tariff, duration_days) ==
  LET table == tariff.multi_day_prices
      max_days == MaxOf(DOMAIN table)
  IN  IF duration_days = 1 THEN Dec(tariff.price)
      ELSE IF DOMAIN table # {} /\ duration_days \in DOMAIN table
        THEN Dec(table[duration_days])
      ELSE IF DOMAIN table # {} /\ duration_days > max_days
        THEN DecMulDiv(Dec(table[max_days]), duration_days, max_days)
      ELSE DecMulDiv(Dec(tariff.price), duration_days, 1)

\* costs[label] = price on a dict kept as the sequence of its items
RECURSIVE DictSet(_, _, _, _)
DictSet(costs, label, price, i) ==
  IF i > Len(costs) THEN Append(costs, [label |-> label, cost |-> price])
  ELSE IF costs[i].label = label
    THEN [costs EXCEPT ![i] = [label |-> label, cost |-> price]]
  ELSE DictSet(costs, label, price, i + 1)

\* the label and the tariff's price of a service id; "" for an id that no
\* branch of _calculate_add_on_costs names
AddOnLabel(service_id) ==
  CASE service_id = "sauna" -> "Sauna"
    [] service_id = "secret_room" -> "Secret room"
    [] service_id = "second_bedroom" -> "Second bedroom"
    [] service_id = "photoshoot" -> "Photoshoot"
    [] OTHER -> ""

AddOnPrice(service_id, tariff) ==
  CASE service_id = "sauna" -> tariff.sauna_price
    [] service_id = "secret_room" -> tariff.secret_room_price
    [] service_id = "second_bedroom" -> tariff.second_bedroom_price
    [] service_id = "photoshoot" -> tariff.photoshoot_price
    [] OTHER -> 0

\* a branch of the loop that bills a service whatever its price
AddOnBilled_any_price(service_id, tariff) ==
  AddOnLabel(service_id) # ""

\* does a branch of the loop in _calculate_add_on_costs bill this service
AddOnBilled(service_id, tariff) ==
  AddOnLabel(service_id) # "" /\ AddOnPrice(service_id, tariff) > 0

\* the dict after the first i service ids of request.add_ons
RECURSIVE calculate_add_on_costs(_, _, _)
calculate_add_on_costs(add_ons, tariff, i) ==
  IF i = 0 THEN << >>
  ELSE LET costs == calculate_add_on_costs(add_ons, tariff, i - 1)
       IN  IF AddOnBilled(add_ons[i], tariff)
             THEN DictSet(costs, AddOnLabel(add_ons[i]),
                          Dec(AddOnPrice(add_ons[i], tariff)), 1)
           ELSE costs

RECURSIVE SumCosts(_, _)
SumCosts(costs, i) ==
  IF i > Len(costs) THEN Dec(0)
  ELSE DecAdd(costs[i].cost, SumCosts(costs, i + 1))

\* what calculate_pricing returns, or the exception it raises
calculate_pricing(tariff_rates, request) ==
  LET tariff == get_tariff_for_request(tariff_rates, request)
      duration_days == calculate_duration_days(request)
      base_cost == calculate_base_cost(tariff, duration_days)
      add_on_costs ==
        calculate_add_on_costs(request.add_ons, tariff, Len(request.add_ons))
  IN  IF tariff = NoTariff
        THEN [raises |-> "ValueError", tariff_id |-> NoId,
              duration_days |-> 0, base_cost |-> Dec(0),
              add_on_costs |-> << >>, total_cost |-> Dec(0)]
        ELSE [raises |-> "None", tariff_id |-> tariff.tariff,
              duration_days |-> duration_days, base_cost |-> base_cost,
              add_on_costs |-> add_on_costs,
              total_cost |-> DecAdd(base_cost, SumCosts(add_on_costs, 1))]

\* the tariffs that get_tariffs_summary lists
TariffsListed(tariff_rates) ==
  {tariff_rates[i].tariff : i \in 1..Len(tariff_rates)}

\* pricing_node with every error of the calculation handled by the last
\* "except Exception" clause
pricing_node_calculate_generic(tariff_rates, pricing_request) ==
  LET pricing_response == calculate_pricing(tariff_rates, pricing_request)
  IN  IF pricing_response.raises = "None"
        THEN [reply |-> "price", intent |-> "price", error |-> "None",
              listed |-> {}]
        ELSE [reply |-> "calculation error", intent |-> "price",
              error |-> pricing_response.raises, listed |-> {}]

\* pricing_node from "pricing_service.calculate_pricing(pricing_request)" on
pricing_node_calculate(tariff_rates, pricing_request) ==
  LET pricing_response == calculate_pricing(tariff_rates, pricing_request)
  IN  IF pricing_response.raises = "None"
        THEN [reply |-> "price", intent |-> "price", error |-> "None",
              listed |-> {}]
      ELSE IF pricing_response.raises = "ValueError"
        THEN [reply |-> "tariff not found", intent |-> "price",
              error |-> "unknown_tariff",
              listed |-> TariffsListed(tariff_rates)]
      ELSE [reply |-> "calculation error", intent |-> "price",
            error |-> pricing_response.raises, listed |-> {}]

(***************************************************************************)
(* The pricing functions applied on their own: tariff resolution and the   *)
(* pricing handler to every request over every table, the base cost to     *)
(* every tariff and day count.                                             *)
(***************************************************************************)
PricingRequests ==
  [tariff_id : {NoId, 0, 1, 7, 9},
   tariff : {"None", "sutochno ot 3 chelovek", "sutochno dlya dvoih",
             "12 chasov", "rabochiy"},
   duration_days : {NoDays} \cup 0..MaxDays,
   start_date : {-1, 10, 11},
   end_date : {-1, 10, 12},
   add_ons : {<< >>, <<"sauna">>, <<"secret_room", "sauna">>,
              <<"photoshoot", "second_bedroom">>, <<"sauna", "sauna">>,
              <<"pool">>}]

ApplyGetTariff ==
  /\ call = NoCall
  /\ \E tariff_rates \in TariffTables, request \in PricingRequests :
       /\ call' = [fn |-> "get_tariff_for_request",
                   tariff_rates |-> tariff_rates, request |-> request]
       /\ ret' = get_tariff_for_request(tariff_rates, request)
  /\ UNCHANGED <<store, pc, kind, conv, msg, prev, st, route, sub, node,
                 steps, result, raised, extracted, failed, mwvars>>

ApplyPricingNode ==
  /\ call = NoCall
  /\ \E tariff_rates \in TariffTables, request \in PricingRequests :
       /\ call' = [fn |-> "pricing_node", tariff_rates |-> tariff_rates,
                   request |-> request]
       /\ ret' = [calc |-> calculate_pricing(tariff_rates, request),
                  out |-> pricing_node_calculate(tariff_rates, request)]
  /\ UNCHANGED <<store, pc, kind, conv, msg, prev, st, route, sub, node,
                 steps, result, raised, extracted, failed, mwvars>>

ApplyBaseCost ==
  /\ call = NoCall
  /\ \E tariff_rates \in TariffTables :
       \E i \in 1..Len(tariff_rates), d \in 1..MaxDays :
         /\ call' = [fn |-> "calculate_base_cost", tariff |-> tariff_rates[i],
                     duration_days |-> d]
         /\ ret' = calculate_base_cost(tariff_rates[i], d)
  /\ UNCHANGED <<store, pc, kind, conv, msg, prev, st, route, sub, node,
                 steps, result, raised, extracted, failed, mwvars>>

ApplyDurationDays ==
  /\ call = NoCall
  /\ \E request \in PricingRequests :
       /\ call' = [fn |-> "calculate_duration_days", request |-> request]
       /\ ret' = calculate_duration_days(request)
  /\ UNCHANGED <<store, pc, kind, conv, msg, prev, st, route, sub, node,
                 steps, result, raised, extracted, failed, mwvars>>

NextPricing ==
  ApplyGetTariff \/ ApplyPricingNode \/ ApplyBaseCost \/ ApplyDurationDays

SpecPricing == Init /\ [][NextPricing]_vars

(***************************************************************************)
(* DateExtractor.  A datetime is a record of year, month, day, second of   *)
(* the day and microsecond; every datetime of the module carries the same  *)
(* tzinfo, so comparison and subtraction are those of the naive values.    *)
(* NoDT stands for None.  datetime.now(TZ) is the argument now.            *)
(***************************************************************************)
DT(y, m, d, s, us) == [y |-> y, m |-> m, d |-> d, s |-> s, us |-> us]
NoDT == DT(0, 0, 0, 0, 0)

IsLeap(y) == (y % 4 = 0 /\ y % 100 # 0) \/ y % 400 = 0

DaysInMonth(y, m) ==
  CASE m \in {1, 3, 5, 7, 8, 10, 12} -> 31
    [] m \in {4, 6, 9, 11} -> 30
    [] OTHER -> IF IsLeap(y) THEN 29 ELSE 28

\* does datetime(y, m, d, ...) return, or raise ValueError
ValidDate(y, m, d) ==
  y \in 1..9999 /\ m \in 1..12 /\ d \in 1..DaysInMonth(y, m)

RECURSIVE DaysBeforeMonth(_, _)
DaysBeforeMonth(y, m) ==
  IF m = 1 THEN 0 ELSE DaysBeforeMonth(y, m - 1) + DaysInMonth(y, m - 1)

toordinal(dt) ==
  365 * (dt.y - 1) + (dt.y - 1) \div 4 - (dt.y - 1) \div 100
    + (dt.y - 1) \div 400 + DaysBeforeMonth(dt.y, dt.m) + dt.d

TimeBefore(a, b) == a.s < b.s \/ (a.s = b.s /\ a.us < b.us)

\* a.date() < b.date()
DateBefore(a, b) == toordinal(a) < toordinal(b)

\* a > b
After(a, b) ==
  \/ toordinal(a) > toordinal(b)
  \/ toordinal(a) = toordinal(b) /\ TimeBefore(b, a)

\* (e - s).days
DeltaDays(e, s) ==
  toordinal(e) - toordinal(s) - (IF TimeBefore(e, s) THEN 1 ELSE 0)

\* dt - timedelta(seconds=1)
MinusOneSecond(dt) ==
  IF dt.s >= 1 THEN [dt EXCEPT !.s = @ - 1]
  ELSE IF dt.d > 1 THEN [dt EXCEPT !.d = @ - 1, !.s = 86399]
  ELSE IF dt.m > 1
    THEN [dt EXCEPT !.m = @ - 1, !.d = DaysInMonth(dt.y, dt.m - 1),
                    !.s = 86399]
  ELSE [dt EXCEPT !.y = @ - 1, !.m = 12, !.d = 31, !.s = 86399]

(***************************************************************************)
(* A text is given by its written form and the numbers written in it:      *)
(*   "iso_range"      "y1-m1-d1 to y2-m2-d2"                               *)
(*   "ru_range"       "d1-d2 <month m1, Russian genitive>"                 *)
(*   "en_range"       "<month m1, English> d1-d2"                          *)
(*   "num_range"      "d1.m1-d2.m2"                                        *)
(*   "iso_date"       "y1-m1-d1"                                           *)
(*   "ru_date"        "d1 <month m1, Russian genitive>"                    *)
(*   "en_date"        "<month m1, English> d1"                             *)
(*   "num_date"       "d1.m1"                                              *)
(*   "num_date_year"  "d1.m1.y1"                                           *)
(*   "words"          the words of the field word; m1 is the month of      *)
(*                    "month name" (Russian nominative), d1 the day count  *)
(*                    of "na N dnya" ("на N дня")                          *)
(* Numeric days and months are written with two digits, years with four    *)
(* (or two, for y1 < 100, in "num_date_year").  Month names are            *)
(* transliterated.  What each regular expression of the extractor finds in *)
(* a text of each form is written out in the operators below.              *)
(***************************************************************************)
Text(form, y1, m1, d1, y2, m2, d2, word) ==
  [form |-> form, y1 |-> y1, m1 |-> m1, d1 |-> d1, y2 |-> y2, m2 |-> m2,
   d2 |-> d2, word |-> word]

Pad2(n) == IF n < 10 THEN "0" \o ToString(n) ELSE ToString(n)

RuGenitive(m) ==
  <<"yanvarya", "fevralya", "marta", "aprelya", "maya", "iyunya", "iyulya",
    "avgusta", "sentyabrya", "oktyabrya", "noyabrya", "dekabrya">>[m]

RuNominative(m) ==
  <<"yanvar'", "fevral'", "mart", "aprel'", "may", "iyun'", "iyul'",
    "avgust", "sentyabr'", "oktyabr'", "noyabr'", "dekabr'">>[m]

EnglishMonth(m) ==
  <<"january", "february", "march", "april", "may", "june", "july",
    "august", "september", "october", "november", "december">>[m]

\* the genitive of March and of August begins with the nominative, which
\* the alternation "nominative|genitive" of the patterns and the test
\* "month_name in text_lower" of month_bounds_from_text then find in it
NominativeInGenitive(m) == m \in {3, 8}

\* the month name that the group of a pattern captures in a Russian text
RuMatched(m) == IF NominativeInGenitive(m) THEN RuNominative(m)
                ELSE RuGenitive(m)

IsoText(y, m, d) == ToString(y) \o "-" \o Pad2(m) \o "-" \o Pad2(d)

\* the text as the user wrote it, in lower case
TextOf(text) ==
  CASE text.form = "iso_range" ->
         IsoText(text.y1, text.m1, text.d1) \o " to "
           \o IsoText(text.y2, text.m2, text.d2)
    [] text.form = "ru_range" ->
         ToString(text.d1) \o "-" \o ToString(text.d2) \o " "
           \o RuGenitive(text.m1)
    [] text.form = "en_range" ->
         EnglishMonth(text.m1) \o " " \o ToString(text.d1) \o "-"
           \o ToString(text.d2)
    [] text.form = "num_range" ->
         Pad2(text.d1) \o "." \o Pad2(text.m1) \o "-" \o Pad2(text.d2)
           \o "." \o Pad2(text.m2)
    [] text.form = "iso_date" -> IsoText(text.y1, text.m1, text.d1)
    [] text.form = "ru_date" -> ToString(text.d1) \o " " \o RuGenitive(text.m1)
    [] text.form = "en_date" ->
         EnglishMonth(text.m1) \o " " \o ToString(text.d1)
    [] text.form = "num_date" -> Pad2(text.d1) \o "." \o Pad2(text.m1)
    [] text.form = "num_date_year" ->
         Pad2(text.d1) \o "." \o Pad2(text.m1) \o "." \o Pad2(text.y1)
    [] text.form = "words" ->
         CASE text.word = "month name" -> RuNominative(text.m1)
           [] text.word = "na N dnya" ->
                "na " \o ToString(text.d1) \o " dnya"
           [] text.word = "next month na N dnya" ->
                "next month na " \o ToString(text.d1) \o " dnya"
           [] OTHER -> text.word

get_target_year_for_month(month, now) ==
  IF month < now.m THEN now.y + 1 ELSE now.y

\* validate_date_range without the limit of 365 days
validate_date_range_no_limit(start_date, end_date) ==
  ~After(start_date, end_date)

validate_date_range(start_date, end_date) ==
  /\ ~After(start_date, end_date)
  /\ DeltaDays(end_date, start_date) <= 365

NoRange == [found |-> FALSE, start |-> NoDT, end |-> NoDT, label |-> ""]

\* the range that the one pattern matching the text builds; ok is FALSE
\* when the branch leaves with "continue" or a datetime raises ValueError
RangeCandidate(text, now) ==
  CASE text.form = "iso_range" ->
         [ok |-> ValidDate(text.y1, text.m1, text.d1)
                   /\ ValidDate(text.y2, text.m2, text.d2),
          start |-> DT(text.y1, text.m1, text.d1, 0, 0),
          end |-> DT(text.y2, text.m2, text.d2, 86399, 0)]
    [] text.form \in {"ru_range", "en_range"} ->
         LET year == get_target_year_for_month(text.m1, now)
         IN  [ok |-> text.d1 <= text.d2
                       /\ ValidDate(year, text.m1, text.d1)
                       /\ ValidDate(year, text.m1, text.d2),
              start |-> DT(year, text.m1, text.d1, 0, 0),
              end |-> DT(year, text.m1, text.d2, 86399, 0)]
    [] text.form = "num_range" ->
         LET start_year == get_target_year_for_month(text.m1, now)
             end_year == IF text.m2 < text.m1 THEN start_year + 1
                         ELSE get_target_year_for_month(text.m2, now)
         IN  [ok |-> ValidDate(start_year, text.m1, text.d1)
                       /\ ValidDate(end_year, text.m2, text.d2),
              start |-> DT(start_year, text.m1, text.d1, 0, 0),
              end |-> DT(end_year, text.m2, text.d2, 86399, 0)]
    [] OTHER -> [ok |-> FALSE, start |-> NoDT, end |-> NoDT]

\* match.group() of the range pattern
RangeLabel(text) ==
  IF text.form = "ru_range"
    THEN ToString(text.d1) \o "-" \o ToString(text.d2) \o " "
           \o RuMatched(text.m1)
  ELSE TextOf(text)

extract_date_range(text, now) ==
  LET c == RangeCandidate(text, now)
  IN  IF c.ok /\ validate_date_range(c.start, c.end)
        THEN [found |-> TRUE, start |-> c.start, end |-> c.end,
              label |-> RangeLabel(text)]
      ELSE NoRange

NoDate == [found |-> FALSE, date |-> NoDT, label |-> ""]

\* the branches '15 marta' and 'March 20': the current year, the next one
\* when the day is before today
NamedMonthDate(day, month, label, now) ==
  IF ~ValidDate(now.y, month, day) THEN NoDate
  ELSE IF DateBefore(DT(now.y, month, day, 0, 0), now)
    THEN IF ValidDate(now.y + 1, month, day)
           THEN [found |-> TRUE, date |-> DT(now.y + 1, month, day, 0, 0),
                 label |-> label]
         ELSE NoDate
  ELSE [found |-> TRUE, date |-> DT(now.y, month, day, 0, 0),
        label |-> label]

\* the first branch, taken by every match of three groups of digits: the
\* groups are read as year, month, day
ThreeDigitGroups(year, month, day) ==
  IF month \in 1..12 /\ day \in 1..31 /\ year >= 2000
     /\ ValidDate(year, month, day)
    THEN [found |-> TRUE, date |-> DT(year, month, day, 0, 0),
          label |-> IsoText(year, month, day)]
  ELSE NoDate

\* the last branch, '20.03': the third group is empty, the year is the
\* current one, and "len(match) < 3" is false for a match of three groups
DayMonthDate(day, month, now) ==
  IF month \in 1..12 /\ day \in 1..31 /\ ValidDate(now.y, month, day)
    THEN [found |-> TRUE, date |-> DT(now.y, month, day, 0, 0),
          label |-> Pad2(day) \o "." \o Pad2(month)]
  ELSE NoDate

extract_specific_date(text, now) ==
  CASE text.form \in {"iso_range", "iso_date"} ->
         ThreeDigitGroups(text.y1, text.m1, text.d1)
    [] text.form = "ru_range" ->
         NamedMonthDate(text.d2, text.m1,
                        ToString(text.d2) \o " " \o RuMatched(text.m1), now)
    [] text.form = "ru_date" ->
         NamedMonthDate(text.d1, text.m1,
                        ToString(text.d1) \o " " \o RuMatched(text.m1), now)
    [] text.form \in {"en_range", "en_date"} ->
         NamedMonthDate(text.d1, text.m1,
                        EnglishMonth(text.m1) \o " " \o ToString(text.d1),
                        now)
    [] text.form \in {"num_range", "num_date"} ->
         DayMonthDate(text.d1, text.m1, now)
    [] text.form = "num_date_year" ->
         ThreeDigitGroups(text.d1, text.m1, text.y1)
    [] OTHER -> NoDate

\* which branch of month_bounds_from_text the words of the text select
MonthWords(text) ==
  CASE text.form = "words" /\ text.word = "this month" -> "current"
    [] text.form = "words"
         /\ text.word \in {"next month", "next month na N dnya"} -> "next"
    [] text.form = "words" /\ text.word = "month name" -> "month"
    [] text.form \in {"ru_range", "ru_date"}
         /\ NominativeInGenitive(text.m1) -> "month"
    [] text.form \in {"en_range", "en_date"} -> "month"
    [] OTHER -> "default"

MonthLabel(text) ==
  IF text.form \in {"en_range", "en_date"} THEN EnglishMonth(text.m1)
  ELSE RuNominative(text.m1)

\* now.replace(year=y, month=m, day=1)
FirstOf(y, m, now) == DT(y, m, 1, now.s, now.us)

month_bounds_from_text(text, now) ==
  LET current ==
        [raises |-> "None", start |-> DT(now.y, now.m, 1, 0, 0),
         end |-> MinusOneSecond(IF now.m = 12 THEN FirstOf(now.y + 1, 1, now)
                                ELSE FirstOf(now.y, now.m + 1, now)),
         label |-> "current month"]
      year == IF text.m1 < now.m THEN now.y + 1 ELSE now.y
  IN  CASE MonthWords(text) = "current" -> current
        [] MonthWords(text) = "next" ->
             IF now.m = 12
               THEN [raises |-> "None", start |-> FirstOf(now.y + 1, 1, now),
                     end |-> MinusOneSecond(FirstOf(now.y + 1, 2, now)),
                     label |-> "next month"]
             ELSE IF now.m + 2 > 12
               THEN [raises |-> "ValueError", start |-> NoDT, end |-> NoDT,
                     label |-> ""]
             ELSE [raises |-> "None", start |-> FirstOf(now.y, now.m + 1, now),
                   end |-> MinusOneSecond(FirstOf(now.y, now.m + 2, now)),
                   label |-> "next month"]
        [] MonthWords(text) = "month" ->
             [raises |-> "None", start |-> DT(year, text.m1, 1, 0, 0),
              end |-> MinusOneSecond(
                        IF text.m1 = 12 THEN DT(year + 1, 1, 1, 0, 0)
                        ELSE DT(year, text.m1 + 1, 1, 0, 0)),
              label |-> MonthLabel(text)]
        [] OTHER -> current

extract_dates_from_text(text, now) ==
  LET date_range == extract_date_range(text, now)
      specific_date == extract_specific_date(text, now)
      bounds == month_bounds_from_text(text, now)
  IN  IF date_range.found
         /\ validate_date_range(date_range.start, date_range.end)
        THEN [raises |-> "None", strategy |-> "range",
              start |-> date_range.start, end |-> date_range.end,
              label |-> date_range.label]
      ELSE IF specific_date.found
        THEN [raises |-> "None", strategy |-> "date",
              start |-> [specific_date.date EXCEPT !.s = 0, !.us = 0],
              end |-> [specific_date.date EXCEPT !.s = 86399, !.us = 999999],
              label |-> specific_date.label]
      ELSE [raises |-> bounds.raises, strategy |-> "month",
            start |-> bounds.start, end |-> bounds.end,
            label |-> bounds.label]

(***************************************************************************)
(* PricingExtractor._extract_time_parameters, and the duration that        *)
(* PricingService then prices for the request built from its result.       *)
(***************************************************************************)
\* the day count that the day patterns find in the text, NoDays for none
DayCountWords(text) ==
  IF text.form = "words" /\ text.word \in {"na N dnya", "next month na N dnya"}
    THEN text.d1
  ELSE NoDays

extract_time_parameters(text, now) ==
  LET dates_result == extract_dates_from_text(text, now)
      caught == dates_result.raises # "None"
      start_date == IF caught THEN NoDT ELSE dates_result.start
      end_date == IF caught THEN NoDT ELSE dates_result.end
      from_dates == IF caught THEN NoDays
                    ELSE Max(1, DeltaDays(end_date, start_date))
      extracted_days == DayCountWords(text)
  IN  [duration_days |->
         IF extracted_days # NoDays /\ from_dates \in {NoDays, 0}
           THEN extracted_days
         ELSE from_dates,
       start_date |-> start_date, end_date |-> end_date]

\* the request of extract_pricing_requirements, its dates as day numbers
\* that keep (end_date - start_date).days
TimeParametersRequest(params) ==
  [tariff_id |-> NoId, tariff |-> "None", add_ons |-> << >>,
   duration_days |-> params.duration_days,
   start_date |-> IF params.start_date = NoDT THEN -1
                  ELSE toordinal(params.start_date),
   end_date |-> IF params.end_date = NoDT THEN -1
                ELSE toordinal(params.start_date)
                       + DeltaDays(params.end_date, params.start_date)]

(***************************************************************************)
(* The date functions applied on their own, to every text at every now.    *)
(***************************************************************************)
Nows ==
  { DT(2025, 3, 15, 43200, 500), DT(2025, 11, 2, 34200, 0),
    DT(2025, 12, 31, 0, 0), DT(2024, 2, 29, 36000, 0) }

TextDays == {1, 10, 20, 25, 29, 31}
TextMonths == {2, 3, 4, 11, 12}
TextYears == {2025, 2026, 2027}

RangeTexts ==
  {Text("ru_range", 0, m, d1, 0, 0, d2, "") :
     m \in TextMonths, d1 \in TextDays, d2 \in TextDays}
  \cup {Text("en_range", 0, m, d1, 0, 0, d2, "") :
          m \in TextMonths, d1 \in TextDays, d2 \in TextDays}
  \cup {Text("num_range", 0, m1, d1, 0, m2, d2, "") :
          m1 \in {1, 3, 12, 13}, d1 \in {10, 31}, m2 \in {1, 3, 12},
          d2 \in {20, 31}}
  \cup {Text("iso_range", y1, m1, d1, y2, m2, d2, "") :
          y1 \in TextYears, m1 \in {3, 12}, d1 \in {20}, y2 \in TextYears,
          m2 \in {3, 12}, d2 \in {19, 25}}

SingleDateTexts ==
  {Text("ru_date", 0, m, d, 0, 0, 0, "") : m \in TextMonths, d \in TextDays}
  \cup {Text("en_date", 0, m, d, 0, 0, 0, "") :
          m \in TextMonths, d \in TextDays}
  \cup {Text("num_date", 0, m, d, 0, 0, 0, "") :
          m \in TextMonths \cup {13}, d \in TextDays}
  \cup {Text("num_date_year", y, m, d, 0, 0, 0, "") :
          y \in TextYears \cup {25}, m \in TextMonths, d \in TextDays}
  \cup {Text("iso_date", y, m, d, 0, 0, 0, "") :
          y \in TextYears, m \in TextMonths, d \in TextDays}

WordTexts ==
  {Text("words", 0, 0, 0, 0, 0, 0, w) :
     w \in {"this month", "next month", "privet"}}
  \cup {Text("words", 0, m, 0, 0, 0, 0, "month name") : m \in 1..12}
  \cup {Text("words", 0, 0, n, 0, 0, 0, w) :
          n \in 1..MaxDays, w \in {"na N dnya", "next month na N dnya"}}

DateTexts == RangeTexts \cup SingleDateTexts \cup WordTexts

ApplyExtractDates ==
  /\ call = NoCall
  /\ \E text \in DateTexts, now \in Nows :
       /\ call' = [fn |-> "extract_dates_from_text", text |-> text,
                   now |-> now]
       /\ ret' = extract_dates_from_text(text, now)
  /\ UNCHANGED <<store, pc, kind, conv, msg, prev, st, route, sub, node,
                 steps, result, raised, extracted, failed, mwvars>>

ApplyExtractSpecificDate ==
  /\ call = NoCall
  /\ \E text \in DateTexts, now \in Nows :
       /\ call' = [fn |-> "extract_specific_date", text |-> text, now |-> now]
       /\ ret' = extract_specific_date(text, now)
  /\ UNCHANGED <<store, pc, kind, conv, msg, prev, st, route, sub, node,
                 steps, result, raised, extracted, failed, mwvars>>

ApplyExtractTimeParameters ==
  /\ call = NoCall
  /\ \E text \in DateTexts, now \in Nows :
       LET params == extract_time_parameters(text, now)
       IN  /\ call' = [fn |-> "extract_time_parameters", text |-> text,
                       now |-> now]
           /\ ret' = [params |-> params,
                      priced |-> calculate_duration_days(
                                   TimeParametersRequest(params))]
  /\ UNCHANGED <<store, pc, kind, conv, msg, prev, st, route, sub, node,
                 steps, result, raised, extracted, failed, mwvars>>

NextDates ==
  ApplyExtractDates \/ ApplyExtractSpecificDate \/ ApplyExtractTimeParameters

SpecDates == Init /\ [][NextDates]_vars

(***************************************************************************)
(* One conversation in which the extractor contributes nothing: it returns *)
(* no field, or fails with an error that _process_user_text absorbs.       *)
(***************************************************************************)
NextHeuristic ==
  Step({1}, {"c1"}, Texts,
       {LLMReturnsNothing, [raises |-> "Exception", parsed |-> LLMNothing]})

SpecHeuristic == Init /\ [][NextHeuristic]_vars

(***************************************************************************)
(* One conversation in which the extractor may return a tariff string that *)
(* names no tariff (BookingExtract.TARIFF is any string).                  *)
(***************************************************************************)
LLMUnknownTariff ==
  [raises |-> "None", parsed |-> [LLMNothing EXCEPT !["TARIFF"] = "junk"]]

UnknownTariffTexts == {"da", "net", "@anna", "podtverzhdayu", "bron"}

NextUnknownTariff ==
  Step({1}, {"c1"}, UnknownTariffTexts, {LLMReturnsNothing, LLMUnknownTariff})

SpecUnknownTariff == Init /\ [][NextUnknownTariff]_vars

(***************************************************************************)
(* router_node applied on its own to every combination of the fields it    *)
(* reads, and to two users.                                                *)
(***************************************************************************)
RouterTexts ==
  {"bron", "tsena", "daty", "izmenit", "chto takoe", "bron tsena",
   "tsena daty", "daty izmenit", "izmenit pravila", "podtverzhdayu",
   "bron podtverzhdayu", "privet"}

RouterInputs ==
  [user_id : {"u1", "u2"},
   text : RouterTexts,
   active_subgraph : {"None", "booking"},
   await_input : {"None", "True", "False"},
   done : {"None", "True", "False"},
   context : {EmptyContext, [EmptyContext EXCEPT !["TARIFF"] = "HOURS_12"]},
   faq_context : {"None", "history"}]

ApplyRouter ==
  /\ call = NoCall
  /\ \E s \in RouterInputs :
       /\ call' = [fn |-> "router_node", s |-> s]
       /\ ret' = router_node(s)
  /\ UNCHANGED <<store, pc, kind, conv, msg, prev, st, route, sub, node,
                 steps, result, raised, extracted, failed, mwvars>>

NextRouter == ApplyRouter

SpecRouter == Init /\ [][NextRouter]_vars

(***************************************************************************)
(* Two conversations whose handlers interleave freely: task 1 serves c1,   *)
(* whose user books, task 2 serves c2, whose user asks for prices and FAQ. *)
(* As in SpecConc, c1 starts without a checkpoint or just before the       *)
(* comment question.                                                       *)
(***************************************************************************)
BookingTexts == {"bron", "12"}
InquiryTexts == {"tsena", "chto takoe"}

NextIsolation ==
  \/ Step({1}, {"c1"}, BookingTexts, {LLMReturnsNothing})
  \/ Step({2}, {"c2"}, InquiryTexts, {LLMReturnsNothing})

SpecIsolation == InitConc /\ [][NextIsolation]_vars

(***************************************************************************)
(* _first_missing applied on its own, to contexts in which the tariff and  *)
(* the comment take every kind of value and up to MaxAltered other fields  *)
(* are absent, None or empty.                                              *)
(***************************************************************************)
MaxAltered == 2

TariffValues ==
  {"ABSENT", "None", "", "junk", "rabochiy", "HOURS_12", "DAY", "WORKER",
   "INCOGNITA_DAY", "DAY_FOR_COUPLE"}

AlteredSets ==
  {S \in SUBSET (BookingField \ {"TARIFF", "COMMENT"}) :
     Cardinality(S) <= MaxAltered}

FirstMissingInputs ==
  {[f \in BookingField |->
      IF f = "TARIFF" THEN t
      ELSE IF f = "COMMENT" THEN c
      ELSE IF f \in S THEN v ELSE "v"] :
     t \in TariffValues, c \in {"ABSENT", "None", "", "v"},
     S \in AlteredSets, v \in {"ABSENT", "None", ""}}

ApplyFirstMissing ==
  /\ call = NoCall
  /\ \E ctx \in FirstMissingInputs :
       /\ call' = [fn |-> "first_missing", ctx |-> ctx]
       /\ ret' = first_missing(ctx)
  /\ UNCHANGED <<store, pc, kind, conv, msg, prev, st, route, sub, node,
                 steps, result, raised, extracted, failed, mwvars>>

NextFirstMissing == ApplyFirstMissing

SpecFirstMissing == Init /\ [][NextFirstMissing]_vars

(***************************************************************************)
(* The booking that process_payment_proof hands to the administrator       *)
(* notification: _create_and_save_booking, or _create_booking_from_context *)
(* when the first raised.  Both read the context with the same keys.       *)
(* A date value "10.03.YYYY" is a date written with its year, "10.03" one  *)
(* without, "YYYY-03-10" one that strptime("%d.%m.%Y") rejects.            *)
(***************************************************************************)
\* context.get(key, default) on the dict of the graph state
ContextGet(context, key, default) ==
  IF key \in DOMAIN context /\ context[key] # "ABSENT" THEN context[key]
  ELSE default

\* the dates that the try block parses, "today" for datetime.now().date()
ParsedDate(date_str) ==
  CASE date_str = "10.03.YYYY" -> "10.03.YYYY"
    [] date_str = "12.03.YYYY" -> "12.03.YYYY"
    [] date_str = "10.03" -> "10.03.2024"
    [] date_str = "ABSENT" -> "01.01.2024"
    [] OTHER -> "ValueError"

BookingDates(context) ==
  LET start_date == ParsedDate(context["START_DATE"])
      finish_date == ParsedDate(context["FINISH_DATE"])
  IN  IF start_date = "ValueError" \/ finish_date = "ValueError"
        THEN [start_date |-> "today", finish_date |-> "today"]
      ELSE [start_date |-> start_date, finish_date |-> finish_date]

convert_tariff_context_to_enum(tariff_value) ==
  CASE tariff_value \in {"ABSENT", "None"} -> "DAY"
    [] tariff_value \in Tariff -> tariff_value
    [] tariff_value = "12 chasov" -> "HOURS_12"
    [] tariff_value = "rabochiy" -> "WORKER"
    [] OTHER -> "DAY"

create_booking_from_context(context) ==
  [tariff |-> convert_tariff_context_to_enum(context["TARIFF"]),
   start_date |-> BookingDates(context).start_date,
   finish_date |-> BookingDates(context).finish_date,
   white_bedroom |-> ContextGet(context, "WHITE_BEDROOM", "False"),
   green_bedroom |-> ContextGet(context, "GREEN_BEDROOM", "False"),
   sauna |-> ContextGet(context, "SAUNA", "False"),
   photoshoot |-> ContextGet(context, "PHOTOSHOOT", "False"),
   secret_room |-> ContextGet(context, "SECRET_ROOM", "False"),
   number_guests |-> ContextGet(context, "NUMBER_GUESTS", "1"),
   comment |-> ContextGet(context, "COMMENT", "None"),
   payment_status |-> "proof_uploaded"]

\* the contexts of a 12-hour booking whose summary was confirmed
SinkContexts ==
  {[ContextBeforeComment EXCEPT
      !["FIRST_BEDROOM"] = first, !["SECOND_BEDROOM"] = second,
      !["SAUNA"] = sauna, !["SECRET_ROOM"] = secret,
      !["PHOTOSHOOT"] = photo, !["START_DATE"] = start,
      !["FINISH_DATE"] = finish, !["NUMBER_GUESTS"] = guests,
      !["COMMENT"] = comment] :
     first \in {"True", "False"}, second \in {"True", "False"},
     sauna \in {"True", "False"}, secret \in {"True", "False"},
     photo \in {"ABSENT", "True"}, start \in {"10.03.YYYY", "10.03"},
     finish \in {"12.03.YYYY", "YYYY-03-10"}, guests \in {"2", "12"},
     comment \in {"net", "pozdniy zaezd"}}

\* saved is FALSE when _create_and_save_booking raised and the booking is
\* that of _create_booking_from_context
ApplyCreateBooking ==
  /\ call = NoCall
  /\ \E context \in SinkContexts, saved \in BOOLEAN :
       /\ call' = [fn |-> "create_booking", context |-> context,
                   saved |-> saved]
       /\ ret' = create_booking_from_context(context)
  /\ UNCHANGED <<store, pc, kind, conv, msg, prev, st, route, sub, node,
                 steps, result, raised, extracted, failed, mwvars>>

NextSink == ApplyCreateBooking

SpecSink == Init /\ [][NextSink]_vars

(***************************************************************************)
(* The booking reference.  finalize writes "#{booking_id}" into its reply; *)
(* it is applied here to the sub-graph states of two confirmed bookings.   *)
(***************************************************************************)
booking_id == 1111

\* the reference in the reply that finalize returns for a sub-graph state
finalize_reference(state) == booking_id

FinalizeStates ==
  {[context |-> [ContextBeforeComment EXCEPT
                   !["SAUNA"] = sauna, !["START_DATE"] = start,
                   !["NUMBER_GUESTS"] = guests, !["COMMENT"] = comment],
    text |-> "", reply |-> Reply("payment"), done |-> "False"] :
     sauna \in {"True", "False"}, start \in {"10.03.YYYY", "11.03.YYYY"},
     guests \in {"2", "12"}, comment \in {"net", "pozdniy zaezd"}}

ApplyFinalize ==
  /\ call = NoCall
  /\ \E first \in FinalizeStates, second \in FinalizeStates :
       /\ call' = [fn |-> "finalize", first |-> first, second |-> second]
       /\ ret' = [first |-> [out |-> finalize(first),
                             reference |-> finalize_reference(first)],
                  second |-> [out |-> finalize(second),
                              reference |-> finalize_reference(second)]]
  /\ UNCHANGED <<store, pc, kind, conv, msg, prev, st, route, sub, node,
                 steps, result, raised, extracted, failed, mwvars>>

NextFinalize == ApplyFinalize

SpecFinalize == Init /\ [][NextFinalize]_vars

(***************************************************************************)
(* RateLimitMiddleware.__call__.  The dispatcher runs every update in its  *)
(* own task, so the calls that serve the messages of one user interleave   *)
(* at each await: redis.get, event.answer, pipe.execute and the handler.   *)
(* Each of them may raise; "except Exception" then calls the handler.      *)
(* The pipeline (INCR, EXPIRE 60) is one transaction.  The key is deleted  *)
(* by Redis 60 seconds after the last EXPIRE.                              *)
(***************************************************************************)
\* a new message of the user reaches the middleware
Arrive(m) ==
  /\ mpc[m] = "new"
  /\ mpc' = [mpc EXCEPT ![m] = "get"]
  /\ UNCHANGED <<redis, current_count, invoked, through>>

\* current_count = await self.redis.get(key), and the test of the limit
RedisGet(m) ==
  /\ mpc[m] = "get"
  /\ \/ /\ current_count' = [current_count EXCEPT ![m] = redis]
        /\ mpc' = [mpc EXCEPT
                     ![m] = IF redis # 0 /\ redis >= rate_limit
                              THEN "answer" ELSE "execute"]
     \/ /\ mpc' = [mpc EXCEPT ![m] = "except"]
        /\ UNCHANGED current_count
  /\ UNCHANGED <<redis, invoked, through>>

\* await event.answer("Слишком много запросов. ..."); return
TooManyAnswer(m) ==
  /\ mpc[m] = "answer"
  /\ \E ok \in BOOLEAN :
       mpc' = [mpc EXCEPT ![m] = IF ok THEN "done" ELSE "except"]
  /\ UNCHANGED <<redis, current_count, invoked, through>>

\* pipe.incr(key); pipe.expire(key, 60); await pipe.execute(): once it
\* returns the message is on its way to the handler
PipeExecute(m) ==
  /\ mpc[m] = "execute"
  /\ \/ /\ redis' = redis + 1
        /\ through' = through \cup {m}
        /\ mpc' = [mpc EXCEPT ![m] = "handler"]
     \/ /\ mpc' = [mpc EXCEPT ![m] = "except"]
        /\ UNCHANGED <<redis, through>>
  /\ UNCHANGED <<current_count, invoked>>

\* return await handler(event, data), inside the try block
CallHandler(m) ==
  /\ mpc[m] = "handler"
  /\ invoked' = [invoked EXCEPT ![m] = invoked[m] + 1]
  /\ \E ok \in BOOLEAN :
       mpc' = [mpc EXCEPT ![m] = IF ok THEN "done" ELSE "except"]
  /\ UNCHANGED <<redis, current_count, through>>

\* except Exception: logger.error(...); return await handler(event, data)
ExceptHandler(m) ==
  /\ mpc[m] = "except"
  /\ invoked' = [invoked EXCEPT ![m] = invoked[m] + 1]
  /\ through' = IF invoked[m] = 0 THEN through \cup {m} ELSE through
  /\ mpc' = [mpc EXCEPT ![m] = "done"]
  /\ UNCHANGED <<redis, current_count>>

\* 60 seconds have passed since the last EXPIRE: Redis deletes the key
KeyExpires ==
  /\ redis # 0
  /\ redis' = 0
  /\ through' = {}
  /\ UNCHANGED <<mpc, current_count, invoked>>

NextRateLimit ==
  /\ \/ \E m \in Events :
          \/ Arrive(m)
          \/ RedisGet(m)
          \/ TooManyAnswer(m)
          \/ PipeExecute(m)
          \/ CallHandler(m)
          \/ ExceptHandler(m)
     \/ KeyExpires
  /\ UNCHANGED <<store, pc, kind, conv, msg, prev, st, route, sub, node,
                 steps, result, raised, extracted, failed, call, ret>>

SpecRateLimit == Init /\ [][NextRateLimit]_vars

(***************************************************************************)
(* Properties                                                              *)
(***************************************************************************)
\* the booking sub-graph of task h has just run ask_or_fill
AfterAsk(h) ==
  /\ pc[h] \in {"booking", "answer"}
  /\ route[h] = "booking"
  /\ steps[h] > 0
  /\ sub[h].reply.kind \in {"question", "summary"}

\* the fields the selected tariff requires, read off the tables
RequiredOf(ctx) ==
  SeqToSet(BASE_REQUIRED) \cup
    SeqToSet(RATE_REQUIREMENTS(FirstMissingTariffEnum(ctx["TARIFF"])))

NoRequiredFieldMissing(ctx) ==
  /\ ctx["TARIFF"] \notin {"ABSENT", "None"}
  /\ \A f \in RequiredOf(ctx) : ~FieldMissing(ctx, f)

\* C1: every booking turn returns to the caller: the sub-graph never runs
\* out of supersteps, and ask_or_fill is not run again on the same text once
\* the summary has been rendered (done is set)
C1_BookingTurnReturns ==
  \A h \in Tasks :
    /\ raised[h] # "GraphRecursionError"
    /\ ~(pc[h] = "booking" /\ node[h] = "ask_or_fill"
         /\ Get(sub[h], "done") = "True")

\* C2: ask_or_fill renders the summary and sets done exactly when, after
\* the turn's text has been processed, no required field of the selected
\* tariff is missing
C2_SummaryIffComplete ==
  \A h \in Tasks :
    AfterAsk(h) =>
      ((sub[h].reply.kind = "summary" /\ sub[h].done = "True")
         <=> NoRequiredFieldMissing(sub[h].context))

C2_Witness ==
  \E h \in Tasks :
    /\ AfterAsk(h)
    /\ sub[h].reply.kind = "summary"
    /\ sub[h].done = "True"
    /\ NoRequiredFieldMissing(sub[h].context)
    /\ NoRequiredFieldMissing(prev[h].context) = FALSE

\* C3: payment is requested only in a turn that began with the summary on
\* display (the previous reply of the conversation) and whose text is the
\* confirmation keyword
C3_PaymentOnlyAfterShownSummary ==
  \A h \in Tasks :
    (pc[h] = "answer" /\ result[h].kind = "payment") =>
      (prev[h].reply.kind = "summary" /\ msg[h] = "podtverzhdayu")

\* C4: a proof uploaded while the conversation is in paymentPending (the
\* payment instructions were its last reply) is answered with the
\* finalization message
C4_ProofFinalizes ==
  \A h \in Tasks :
    (/\ kind[h] = "proof"
     /\ pc[h] = "answer"
     /\ store["messages"][conv[h]].reply.kind = "payment")
      => result[h].kind = "final"

\* C6: no two turns of one conversation are both between loading and saving
\* that conversation's state
InTurn(h) == pc[h] \in {"invoke", "router", "leaf", "booking"}

C6_OneTurnAtATime ==
  \A h1, h2 \in Tasks :
    (h1 # h2 /\ kind[h1] = "text" /\ kind[h2] = "text"
       /\ conv[h1] = conv[h2])
      => ~(InTurn(h1) /\ InTurn(h2))

\* C7: a text turn that starts while the conversation's active flow is
\* booking is dispatched to the booking sub-graph, whatever its text
C7_StickyBooking ==
  \A h \in Tasks :
    (/\ kind[h] = "text"
     /\ pc[h] \in {"leaf", "booking", "answer"}
     /\ prev[h].active_subgraph = "booking")
      => route[h] = "booking"

C7_Witness ==
  \E h \in Tasks :
    /\ kind[h] = "text"
    /\ pc[h] = "booking"
    /\ prev[h].active_subgraph = "booking"
    /\ msg[h] = "tsena"
    /\ KeywordIntent(msg[h]).intent = "price"
    /\ route[h] = "booking"

\* C8: when ask_or_fill runs with the summary already rendered and a text
\* that is neither the confirmation keyword nor a "no further changes"
\* phrase, slot extraction is run on that same text
C8_CorrectionIsExtracted ==
  [][\A h \in Tasks :
       (/\ pc[h] = "booking"
        /\ node[h] = "ask_or_fill"
        /\ Get(sub[h], "done") = "True"
        /\ Norm(sub[h].text) \notin ({"", "podtverzhdayu"} \cup StandardNoResponses)
        /\ steps'[h] = steps[h] + 1)
         => extracted'[h] = Norm(sub[h].text)]_vars

\* C9: whenever the second bedroom is declined the first bedroom is true,
\* and the first-bedroom question is not asked
C9_DeclineSetsFirstBedroom ==
  \A h \in Tasks :
    (AfterAsk(h) /\ sub[h].context["SECOND_BEDROOM"] = "False") =>
      /\ sub[h].context["FIRST_BEDROOM"] = "True"
      /\ ~(sub[h].reply.kind = "question"
           /\ sub[h].reply.field = "FIRST_BEDROOM")

C11_FirstMissing ==
  call.fn = "first_missing" =>
    LET ctx == call.ctx
        order == RATE_REQUIREMENTS(FirstMissingTariffEnum(ctx["TARIFF"]))
                   \o BASE_REQUIRED
        Lacks(f) == \/ ctx[f] = "ABSENT"
                    \/ f # "COMMENT" /\ ctx[f] \in {"None", ""}
    IN  IF ctx["TARIFF"] \in {"ABSENT", "None"} THEN ret = "TARIFF"
        ELSE \/ /\ ret = "None"
                /\ \A i \in 1..Len(order) : ~Lacks(order[i])
             \/ \E i \in 1..Len(order) :
                  /\ ret = order[i]
                  /\ Lacks(order[i])
                  /\ \A j \in 1..(i - 1) : ~Lacks(order[j])

\* a stored null comment with everything else filled in: nothing is missing
C11_Witness ==
  /\ call.fn = "first_missing"
  /\ call.ctx["TARIFF"] = "HOURS_12"
  /\ call.ctx["COMMENT"] = "None"
  /\ ret = "None"

\* C12: when the extractor call of ask_or_fill throws or is cancelled, the
\* node still completes, no exception leaves the turn, and the node's output
\* is the one heuristic parsing alone produces (the output with an extractor
\* that returns no field)
C12_ExtractorFailureAbsorbed ==
  [][\A h \in Tasks :
       (/\ pc[h] = "booking"
        /\ steps[h] < RecursionLimit
        /\ CallsExtractor(h)
        /\ failed'[h] # "None"
        /\ pc'[h] # "idle")
         => /\ raised'[h] = "None"
            /\ steps'[h] = steps[h] + 1
            /\ sub'[h] = Update(sub[h], ask_or_fill(sub[h], LLMReturnsNothing),
                                BookingStateKeys)]_vars

\* C13: in a booking turn whose text gives no value for the first missing
\* field (the extractor contributes nothing, the field's parser rejects the
\* text), the context is left as it was, done is not set, nothing is raised
\* and the reply is the question for that same field
UnparsedField(h) ==
  LET f == first_missing(prev[h].context)
  IN  IF /\ kind[h] = "text"
         /\ route[h] = "booking"
         /\ pc[h] = "answer"
         /\ f # "None"
         /\ parse_field_value(prev[h].context, f, msg[h]) = prev[h].context
        THEN f ELSE "None"

C13_UnparsedFieldReasked ==
  \A h \in Tasks :
    UnparsedField(h) # "None" =>
      /\ raised[h] = "None"
      /\ st[h].context = prev[h].context
      /\ store["messages"][conv[h]].context = prev[h].context
      /\ sub[h].done = "False"
      /\ result[h] = [kind |-> "question", field |-> UnparsedField(h),
                      shown |-> NoLines]

C13_Witness ==
  \E h \in Tasks :
    /\ UnparsedField(h) = "SAUNA"
    /\ msg[h] = "tsena"
    /\ prev[h].context["TARIFF"] = "HOURS_12"
    /\ result[h].field = "SAUNA"

\* C14: while the stored tariff maps to no known tariff, the required fields
\* are the base fields only: ask_or_fill asks for a base field or, exactly
\* when no base field is missing, renders the summary, and rendering it
\* reads no key that the context lacks (nothing is raised)
HasUnknownTariff(ctx) == ctx["TARIFF"] = "junk"

C15_EveryTurnReplies ==
  \A h \in Tasks :
    pc[h] = "answer" =>
      /\ result[h] # NoReply
      /\ raised[h] # "None" => result[h] = Reply("error")

\* C16: router_node returns the outcome of the first rule that matches, in
\* the order: sticky booking, resume from a non-empty context, confirmation
\* after done, FAQ context, then the keyword classes booking, price,
\* availability, change, faq, else unknown; and the user id has no part in it
RouterRules(s) ==
  LET yes(v) == v \notin {"None", "False"}
      kw == KeywordClasses(s.text)
  IN  << <<s.active_subgraph = "booking" /\ yes(s.await_input) /\ ~yes(s.done),
           "booking">>,
         <<s.context # EmptyContext /\ ~yes(s.active_subgraph) /\ ~yes(s.done),
           "booking">>,
         <<yes(s.done) /\ ContainsConfirm(s.text), "booking">>,
         <<yes(s.faq_context), "faq">>,
         <<"booking" \in kw, "booking">>,
         <<"price" \in kw, "price">>,
         <<"availability" \in kw, "availability">>,
         <<"change" \in kw, "change">>,
         <<"faq" \in kw, "faq">>,
         <<TRUE, "unknown">> >>

C16_RouterFirstMatch ==
  call.fn = "router_node" =>
    LET R == RouterRules(call.s)
    IN  /\ \E i \in 1..Len(R) :
             /\ R[i][1]
             /\ \A j \in 1..(i - 1) : ~R[j][1]
             /\ ret.intent = R[i][2]
             /\ ("active_subgraph" \in DOMAIN ret) = (R[i][2] = "booking")
        /\ \A u \in {"u1", "u2"} :
             router_node([call.s EXCEPT !.user_id = u]) = ret

\* a text with a booking and a price keyword, nothing stored: booking wins
C16_Witness ==
  /\ call.fn = "router_node"
  /\ call.s.text = "bron tsena"
  /\ call.s.active_subgraph = "None"
  /\ call.s.context = EmptyContext
  /\ call.s.faq_context = "None"
  /\ ret.intent = "booking"

\* C17: a turn of one conversation neither reads nor changes the stored
\* state of another one.  Changes: a thread's checkpoint changes only in a
\* step of a handler that serves that thread.  Reads: what a handler has
\* loaded is the checkpoint of its own thread, so the conversation that
\* only asks for prices and FAQ never sees booking state, and the one that
\* only books never sees FAQ state
OwnStep(h) ==
  pc'[h] # pc[h] \/ steps'[h] # steps[h] \/ st'[h] # st[h]

C17_ConversationsIsolated ==
  /\ [][\A g \in Graphs, c \in Convs :
          store'[g][c] # store[g][c] =>
            \E h \in Tasks : conv[h] = c /\ GraphOf(kind[h]) = g /\ OwnStep(h)]_vars
  /\ [](\A h \in Tasks :
          /\ pc[h] = "invoke" => prev[h] = store[GraphOf(kind[h])][conv[h]]
          /\ conv[h] = "c2" =>
               /\ prev[h].context = EmptyContext
               /\ prev[h].active_subgraph = "None"
               /\ route[h] # "booking"
          /\ conv[h] = "c1" =>
               /\ prev[h].faq_context = "None"
               /\ result[h].kind \notin {"price", "price_error", "faq",
                                         "faq_error"})

\* both handlers are inside their turns, and c1 already holds a booking
C17_Witness ==
  /\ pc[1] = "booking"
  /\ pc[2] = "leaf"
  /\ conv[1] = "c1"
  /\ conv[2] = "c2"
  /\ store["messages"]["c1"].active_subgraph = "booking"
  /\ store["messages"]["c1"].context["TARIFF"] = "HOURS_12"
  /\ store["messages"]["c2"].faq_context = "history"


(***************************************************************************)
(* C18: when a pricing request carries an explicit tariff id that the      *)
(* table does not define, calculate_pricing raises the unknown-tariff      *)
(* ValueError, and pricing_node answers "tariff not found" with the list   *)
(* of the valid tariffs and error = "unknown_tariff", not the generic      *)
(* failure reply.                                                          *)
(***************************************************************************)
ExplicitUndefinedId ==
  /\ call.fn = "pricing_node"
  /\ call.request.tariff_id # NoId
  /\ \A i \in 1..Len(call.tariff_rates) :
       call.tariff_rates[i].tariff # call.request.tariff_id

C18_UnknownTariffReply ==
  ExplicitUndefinedId =>
    /\ ret.calc.raises = "ValueError"
    /\ ret.out.reply = "tariff not found"
    /\ ret.out.error = "unknown_tariff"
    /\ ret.out.intent = "price"
    /\ ret.out.listed =
         {call.tariff_rates[i].tariff : i \in 1..Len(call.tariff_rates)}

C18_Witness ==
  /\ ExplicitUndefinedId
  /\ call.request.tariff_id = 9
  /\ Len(call.tariff_rates) = 3
  /\ ret.out.listed = {0, 1, 7}

(***************************************************************************)
(* C19: when a pricing request carries no explicit tariff id, tariff       *)
(* resolution always yields a tariff: the first tariff of the table that   *)
(* the keyword rules match, or tariff id 1 when nothing matches.           *)
(***************************************************************************)
MatchedAt(i) ==
  /\ call.request.tariff \notin {"None", ""}
  /\ TariffMatches(call.request.tariff, call.tariff_rates[i])

C19_ResolutionNeverFails ==
  (call.fn = "get_tariff_for_request" /\ call.request.tariff_id = NoId) =>
    /\ ret # NoTariff
    /\ \/ \E i \in 1..Len(call.tariff_rates) :
            /\ MatchedAt(i)
            /\ \A j \in 1..(i - 1) : ~MatchedAt(j)
            /\ ret = call.tariff_rates[i]
       \/ /\ \A i \in 1..Len(call.tariff_rates) : ~MatchedAt(i)
          /\ ret.tariff = 1

(***************************************************************************)
(* C20: the base cost for d days is the tariff's flat price for d = 1;     *)
(* for d > 1 it is the entry of the per-day-count table for d when there   *)
(* is one, else the price of the largest tabulated day count times d       *)
(* divided by that day count, else (no table) the flat price times d.      *)
(***************************************************************************)
C20_BaseCost ==
  call.fn = "calculate_base_cost" =>
    LET d == call.duration_days
        table == call.tariff.multi_day_prices
        largest == CHOOSE k \in DOMAIN table : \A m \in DOMAIN table : m <= k
    IN  IF d = 1 THEN DecEq(ret, Dec(call.tariff.price))
        ELSE IF d \in DOMAIN table THEN DecEq(ret, Dec(table[d]))
        ELSE IF DOMAIN table # {}
          THEN ret.num * largest = table[largest] * d * ret.den
        ELSE DecEq(ret, Dec(call.tariff.price * d))

(***************************************************************************)
(* C21: the priced duration is the explicit day count when one is given;   *)
(* otherwise the whole days between start date and end date, raised to 1   *)
(* if smaller; otherwise 1 day; an explicit day count always takes         *)
(* precedence over a duration derived from dates.                          *)
(* As stated (every given day count, 0 included):                          *)
(***************************************************************************)
DurationFromDates ==
  IF call.request.start_date # -1 /\ call.request.end_date # -1
    THEN IF call.request.end_date - call.request.start_date < 1 THEN 1
         ELSE call.request.end_date - call.request.start_date
  ELSE 1

C21_ExplicitDayCountFirst ==
  call.fn = "calculate_duration_days" =>
    ret = IF call.request.duration_days # NoDays
            THEN call.request.duration_days
          ELSE DurationFromDates

(***************************************************************************)
(* C21, amended: the same with "a day count other than 0"; a day count of  *)
(* 0 is treated as not given.                                              *)
(***************************************************************************)
C21_NonZeroDayCountFirst ==
  call.fn = "calculate_duration_days" =>
    ret = IF call.request.duration_days \notin {NoDays, 0}
            THEN call.request.duration_days
          ELSE DurationFromDates

C21_Witness ==
  /\ call.fn = "calculate_duration_days"
  /\ call.request.duration_days = 3
  /\ call.request.start_date = 10
  /\ call.request.end_date = 12
  /\ ret = 3

(***************************************************************************)
(* C23: for every tariff T and every day count d > 1, with no add-ons      *)
(* selected, the total of calculate(T, d) is at least the base cost of     *)
(* calculate(T, 1).                                                        *)
(***************************************************************************)
DecGeq(a, b) == a.num * b.den >= b.num * a.den

PricedManyDaysNoAddOns ==
  /\ call.fn = "pricing_node"
  /\ call.request.add_ons = << >>
  /\ ret.calc.raises = "None"
  /\ ret.calc.duration_days > 1

PricedTariff == TableGet(call.tariff_rates, ret.calc.tariff_id, 1)

Selected == {call.request.add_ons[i] : i \in 1..Len(call.request.add_ons)}

Billable == {a \in Selected : AddOnPrice(a, PricedTariff) > 0}

RECURSIVE SumOfPrices(_)
SumOfPrices(S) ==
  IF S = {} THEN 0
  ELSE LET a == CHOOSE x \in S : TRUE
       IN  AddOnPrice(a, PricedTariff) + SumOfPrices(S \ {a})

C24_AddOnLineItems ==
  (call.fn = "pricing_node" /\ ret.calc.raises = "None") =>
    LET items == ret.calc.add_on_costs
    IN  /\ \A a \in Billable :
             \E i \in 1..Len(items) :
               /\ items[i].label = AddOnLabel(a)
               /\ items[i].cost = Dec(AddOnPrice(a, PricedTariff))
        /\ \A i \in 1..Len(items) :
             /\ items[i].cost.num > 0
             /\ \E a \in Billable : items[i].label = AddOnLabel(a)
        /\ \A i, j \in 1..Len(items) :
             items[i].label = items[j].label => i = j
        /\ DecEq(ret.calc.total_cost,
                 DecAdd(ret.calc.base_cost, Dec(SumOfPrices(Billable))))

C24_Witness ==
  /\ call.fn = "pricing_node"
  /\ ret.calc.raises = "None"
  /\ ret.calc.tariff_id = 1
  /\ call.request.add_ons = <<"secret_room", "sauna">>
  /\ call.request.duration_days = 2
  /\ Len(ret.calc.add_on_costs) = 1
  /\ ret.calc.add_on_costs[1].label = "Sauna"
  /\ DecEq(ret.calc.total_cost, Dec(1400))

(***************************************************************************)
(* C22: for a pricing query whose text has an explicit day count ("на 3    *)
(* дня") and no explicit date, the extracted duration and the priced       *)
(* duration both equal that day count.                                     *)
(***************************************************************************)
C22_DayCountWordsPriced ==
  (/\ call.fn = "extract_time_parameters"
   /\ call.text.form = "words"
   /\ call.text.word = "na N dnya") =>
    /\ ret.params.duration_days = call.text.d1
    /\ ret.priced = call.text.d1

(***************************************************************************)
(* C25: extract_dates_from_text returns a result for every input text, and *)
(* every range it returns, whichever of the three strategies produced it,  *)
(* has start <= end and end - start <= 365 days.                           *)
(***************************************************************************)
C25_AlwaysAValidRange ==
  call.fn = "extract_dates_from_text" =>
    /\ ret.raises = "None"
    /\ ret.strategy \in {"range", "date", "month"}
    /\ ~After(ret.start, ret.end)
    /\ DeltaDays(ret.end, ret.start) <= 365

(***************************************************************************)
(* C26: a range candidate that violates start <= end or the limit of 365   *)
(* days is never returned: extraction falls through to the single-date     *)
(* strategy and then to the month fallback, in that order; a text that     *)
(* matches an explicit valid range is always answered by the range         *)
(* strategy.                                                               *)
(***************************************************************************)
WrittenRange ==
  /\ call.fn = "extract_dates_from_text"
  /\ call.text.form \in {"iso_range", "ru_range", "en_range", "num_range"}

CandidateIsValid ==
  LET c == RangeCandidate(call.text, call.now)
  IN  /\ c.ok
      /\ ~After(c.start, c.end)
      /\ DeltaDays(c.end, c.start) <= 365

C26_InvalidRangeFallsThrough ==
  WrittenRange =>
    LET c == RangeCandidate(call.text, call.now)
        single == extract_specific_date(call.text, call.now)
    IN  /\ ret.raises = "None"
        /\ CandidateIsValid =>
             /\ ret.strategy = "range"
             /\ ret.start = c.start
             /\ ret.end = c.end
        /\ ~CandidateIsValid =>
             /\ ret.strategy # "range"
             /\ single.found =>
                  /\ ret.strategy = "date"
                  /\ toordinal(ret.start) = toordinal(single.date)
                  /\ toordinal(ret.end) = toordinal(single.date)
             /\ ~single.found => ret.strategy = "month"
        /\ ret.strategy = "range" =>
             /\ ~After(ret.start, ret.end)
             /\ DeltaDays(ret.end, ret.start) <= 365

\* a written range of more than 365 days, answered by its first date
C26_Witness ==
  /\ WrittenRange
  /\ call.text.form = "iso_range"
  /\ RangeCandidate(call.text, call.now).ok
  /\ DeltaDays(RangeCandidate(call.text, call.now).end,
               RangeCandidate(call.text, call.now).start) > 365
  /\ ret.strategy = "date"
  /\ ret.start = DT(call.text.y1, call.text.m1, call.text.d1, 0, 0)

(***************************************************************************)
(* C27: for every single explicit date written without a year, in          *)
(* named-month form or in numeric D.M form, the resolved date is in the    *)
(* current year if that day is today or later, and in the next year if     *)
(* that day has already passed.                                            *)
(***************************************************************************)
DateWithoutYear ==
  /\ call.fn = "extract_specific_date"
  /\ call.text.form \in {"ru_date", "en_date", "num_date"}
  /\ ValidDate(call.now.y, call.text.m1, call.text.d1)
  /\ ValidDate(call.now.y + 1, call.text.m1, call.text.d1)

C27_YearInference ==
  DateWithoutYear =>
    LET this_year == DT(call.now.y, call.text.m1, call.text.d1, 0, 0)
    IN  /\ ret.found
        /\ ret.date.m = call.text.m1
        /\ ret.date.d = call.text.d1
        /\ ret.date.y = IF toordinal(this_year) >= toordinal(call.now)
                          THEN call.now.y
                        ELSE call.now.y + 1

(***************************************************************************)
(* C28: a day range inside one month written "D-D <month>" yields start =  *)
(* the first day at 00:00:00, end = the last day at 23:59:59.999999 and a  *)
(* label equal to the matched input text ("20-25 марта" at 2025-03-15      *)
(* gives 2025-03-20T00:00 to 2025-03-25T23:59:59.999999, label "20-25      *)
(* марта").                                                                *)
(***************************************************************************)
C28_DayRangeInMonth ==
  (/\ call.fn = "extract_dates_from_text"
   /\ call.text.form = "ru_range"
   /\ call.text.d1 <= call.text.d2
   /\ RangeCandidate(call.text, call.now).ok) =>
    LET year == IF call.text.m1 < call.now.m THEN call.now.y + 1
                ELSE call.now.y
    IN  /\ ret.raises = "None"
        /\ ret.start = DT(year, call.text.m1, call.text.d1, 0, 0)
        /\ ret.end = DT(year, call.text.m1, call.text.d2, 86399, 999999)
        /\ ret.label = TextOf(call.text)

(***************************************************************************)
(* C29: a numeric date with an explicit year, "D.M.Y" ("25.03.2025"), is   *)
(* recognised as a single explicit date and resolves to exactly that day,  *)
(* month and year, expanded to the one-day range [00:00:00,                *)
(* 23:59:59.999999].                                                       *)
(***************************************************************************)
C29_NumericDateWithYear ==
  (/\ call.fn = "extract_dates_from_text"
   /\ call.text.form = "num_date_year"
   /\ call.text.y1 >= 2000
   /\ ValidDate(call.text.y1, call.text.m1, call.text.d1)) =>
    /\ ret.raises = "None"
    /\ ret.strategy = "date"
    /\ ret.start = DT(call.text.y1, call.text.m1, call.text.d1, 0, 0)
    /\ ret.end = DT(call.text.y1, call.text.m1, call.text.d1, 86399, 999999)

(***************************************************************************)
(* C30: the booking handed to the administrator notification when a proof  *)
(* is accepted carries, for every collected field (both bedroom            *)
(* selections, sauna, photoshoot, secret room, dates, guest count,         *)
(* comment), the value of the accumulated booking context.                 *)
(***************************************************************************)
Collected(field, default) ==
  IF call.context[field] = "ABSENT" THEN default ELSE call.context[field]

C30_SinkCarriesContext ==
  call.fn = "create_booking" =>
    /\ ret.green_bedroom = Collected("FIRST_BEDROOM", "False")
    /\ ret.white_bedroom = Collected("SECOND_BEDROOM", "False")
    /\ ret.sauna = Collected("SAUNA", "False")
    /\ ret.photoshoot = Collected("PHOTOSHOOT", "False")
    /\ ret.secret_room = Collected("SECRET_ROOM", "False")
    /\ ret.number_guests = call.context["NUMBER_GUESTS"]
    /\ ret.comment = call.context["COMMENT"]
    /\ call.context["START_DATE"] = "10.03.YYYY"
         => ret.start_date = "10.03.YYYY"
    /\ call.context["FINISH_DATE"] = "12.03.YYYY"
         => ret.finish_date = "12.03.YYYY"

(***************************************************************************)
(* C31: a payment proof uploaded while the payment status of the           *)
(* conversation (the one process_payment_proof reads from its checkpoint)  *)
(* is not pending is rejected: the handler answers "confirm the booking    *)
(* first", and while it runs no checkpoint changes and graph.ainvoke is    *)
(* not entered, so nothing is finalized and the administrator is not       *)
(* notified.                                                               *)
(***************************************************************************)
NotPending(h) ==
  Get(store[GraphOf(kind[h])][conv[h]], "payment_status") # "pending"

NoBookingInProgress(s) ==
  s.active_subgraph # "booking" /\ s.context = EmptyContext

C35_BookingKeywordStartsBooking ==
  \A h \in Tasks :
    (/\ kind[h] = "text"
     /\ pc[h] \in {"leaf", "booking", "answer"}
     /\ NoBookingInProgress(prev[h])
     /\ "booking" \in KeywordClasses(msg[h]))
      => route[h] = "booking"

(***************************************************************************)
(* C37: when ask_or_fill fills the context from a heuristic answer (the    *)
(* extractor found nothing), every field other than the asked one, the     *)
(* first missing field, keeps its value; the one exception is the first    *)
(* bedroom, which may be set while it has no value yet.                    *)
(***************************************************************************)
HeuristicAnswer(h) ==
  /\ pc[h] = "booking"
  /\ node[h] = "ask_or_fill"
  /\ ProcessedText(sub[h]) # ""
  /\ steps'[h] = steps[h] + 1

C37_AnswerKeepsOtherFields ==
  [][\A h \in Tasks :
       HeuristicAnswer(h) =>
         \A g \in BookingField \ {first_missing(sub[h].context)} :
           \/ sub'[h].context[g] = sub[h].context[g]
           \/ g = "FIRST_BEDROOM" /\ sub[h].context[g] = "ABSENT"]_vars

(***************************************************************************)
(* C38: the confirmation messages of two different finalized bookings      *)
(* carry different booking references.                                     *)
(***************************************************************************)
C38_ReferencesDiffer ==
  (call.fn = "finalize" /\ call.first # call.second) =>
    ret.first.reference # ret.second.reference

(***************************************************************************)
(* C39: of the messages of one user, at most rate_limit are let through to *)
(* the handler within one counting window (the lifetime of the user's      *)
(* key), however the calls of the middleware interleave.                   *)
(***************************************************************************)
C39_AtMostLimitThrough == Cardinality(through) <= rate_limit

(***************************************************************************)
(* C40: the middleware calls the downstream handler at most once for each  *)
(* message, also when the handler raises.                                  *)
(***************************************************************************)
C40_HandlerCalledOnce == \A m \in Events : invoked[m] <= 1
====
